---- MODULE Spec2Model ----
(***************************************************************************)
(* Model of the opensnitch-tui controller mediator: the gRPC service       *)
(* (src/grpc/service.rs), the state actor (src/app/state.rs), the node     *)
(* manager (src/models/node.rs) and the prompt path of the UI loop         *)
(* (src/ui/app.rs, src/ui/dialogs/prompt.rs).                              *)
(*                                                                         *)
(* Conventions.  Option<T> is a sequence of length 0 (None) or 1 (Some).   *)
(* A String is a sequence of tokens, so that splitting and formatting are  *)
(* computed rather than assumed.  Every arm of run_state_manager is the    *)
(* sequence of its statements (Arm), executed one statement at a time.     *)
(***************************************************************************)
EXTENDS Integers, Sequences, FiniteSets, TLC

VARIABLES
    rx,                     \* mpsc command channel (state_tx -> rx), FIFO
    nodes,                  \* NodeManager.nodes: addr -> Node
    active_node,            \* NodeManager.active_node: Option<addr>
    connections,            \* AppState.connections, newest first
    alerts,                 \* AppState.alerts, newest first
    pending_prompts,        \* AppState.pending_prompts
    notification_channels,  \* AppState.notification_channels: addr -> Sender
    outbound,               \* per stream: the mpsc queue behind its Sender
    notification_id,        \* NotificationIdGenerator: next id
    db,                     \* durable store tables
    ui_update_rx,           \* the UI's receiver of the broadcast channel
    cur,                    \* Option<AppMessage>: the command in the match
    ops,                    \* statements of the current arm still to run
    held,                   \* RwLock guards the actor holds
    emitted,                \* signals sent while processing cur
    pre_active,             \* active_node when cur was received
    streams,                \* Notifications streams: id -> [peer, state]
    asks,                   \* interactive AskRule handlers: id -> record
    sinks,                  \* oneshot channels: id -> [state, sent, value]
    prompt_dialog,          \* TuiApp.prompt_dialog: Option<PromptDialog>
    replies,                \* rules returned by monitor-mode AskRule calls
    clock                   \* counters of the inputs drawn so far

vars == <<rx, nodes, active_node, connections, alerts, pending_prompts,
          notification_channels, outbound, notification_id, db,
          ui_update_rx, cur, ops, held, emitted, pre_active, streams, asks,
          sinks, prompt_dialog, replies, clock>>

-----------------------------------------------------------------------------
(* Bounds of the model.  The capacities are the program's, scaled down.    *)

\* AppState.max_connections (1000 in the program)
max_connections == 2
\* AppState.max_alerts (500 in the program)
max_alerts == 1
\* capacity of the command channel (1000 in the program)
ChannelCapacity == 2
\* capacity of the UI's broadcast receiver (100 in the program)
BroadcastCapacity == 3
\* capacity of one outbound notification queue (100 in the program)
OutboundCapacity == 1
\* largest number of events embedded in one StatsUpdate
MaxBatch == 3
\* number of commands the environment submits in all
MaxCommands == 3
\* number of Notifications streams opened
MaxStreams == 2
\* number of interactive AskRule calls
MaxPrompts == 2
\* number of commands submitted to the actor when every variant is drawn
MaxActorCommands == 2
\* number of monitor-mode AskRule calls followed through their two steps
MaxAsks == 1
\* number of calls made to the store when it is driven directly
MaxDbCalls == 2
\* number of commands the rules tab sends to a connected node
MaxRuleCommands == 3

-----------------------------------------------------------------------------
(* Data                                                                    *)

None == <<>>
Some(x) == <<x>>
IsSome(o) == Len(o) = 1
Unwrap(o) == o[1]

\* peer identifiers derived by UiService::peer_addr
Addrs == {"a", "b", "c"}

\* u32 fields are carried as the token their to_string() gives
Conn(path, port, host) ==
    [process_path |-> path, dst_port |-> port, dst_host |-> host,
     dst_ip |-> <<"10.0.0.1">>, user_id |-> "0", process_checksums |-> <<>>,
     protocol |-> <<"tcp">>, src_ip |-> <<"10.0.0.2">>, src_port |-> "40000",
     process_id |-> "100", process_args |-> <<>>, process_cwd |-> <<"/">>]

\* "/usr/bin/curl" to example.org:443, and "curl" (no separator) to port 53
Curl443 == Conn(<<"/", "usr", "/", "bin", "/", "curl">>, "443", <<"example", ".", "org">>)
Curl53 == Conn(<<"curl">>, "53", <<>>)
Connections == {Curl443, Curl53}

\* the connection whose event is the n-th submitted
Event(n, c) == [seq |-> n, connection |-> c, rule |-> None]

RECURSIVE LastIndexOf(_, _)
\* position of the last occurrence of tok in s, 0 when there is none
LastIndexOf(s, tok) ==
    IF s = <<>> THEN 0
    ELSE IF s[Len(s)] = tok THEN Len(s)
    ELSE LastIndexOf(SubSeq(s, 1, Len(s) - 1), tok)

\* process_name giving the path as it is
process_name_path(c) == c.process_path

\* Connection::process_name: process_path.rsplit('/').next()
process_name(c) ==
    SubSeq(c.process_path, LastIndexOf(c.process_path, "/") + 1, Len(c.process_path))

Operator_simple(operand, data) ==
    [op_type |-> "simple", operand |-> operand, data |-> data,
     sensitive |-> FALSE, list |-> <<>>]

Rule_new(name, action, duration, operator) ==
    [name |-> name, description |-> <<>>, enabled |-> TRUE, precedence |-> FALSE,
     nolog |-> FALSE, action |-> action, duration |-> duration, operator |-> operator]

\* a list operator over its nested operators
Operator_list(list) ==
    [op_type |-> "list", operand |-> "list", data |-> <<>>,
     sensitive |-> FALSE, list |-> list]

\* the enums of the data model; a variant is named by its lower-case name
RuleAction == {"allow", "deny", "reject"}
RuleDuration == {"once", "until restart", "always", "5m", "15m", "30m", "1h", "12h", "24h"}
OperatorType == {"simple", "regexp", "network", "list", "lists"}

\* char::to_lowercase on the letters of one token
LowerOf(tok) ==
    CASE tok = "ALLOW" -> "allow"
      [] tok = "Deny" -> "deny"
      [] tok = "REJECT" -> "reject"
      [] tok = "Always" -> "always"
      [] tok = "Until Restart" -> "until restart"
      [] tok = "1H" -> "1h"
      [] tok = "Regexp" -> "regexp"
      [] tok = "LISTS" -> "lists"
      [] OTHER -> tok

\* str::to_lowercase
to_lowercase(s) == [i \in 1..Len(s) |-> LowerOf(s[i])]

\* Display writing the debug name of the variant for deny
RuleAction_to_string_debug(a) ==
    CASE a = "allow" -> <<"allow">>
      [] a = "deny" -> <<"Deny", "!">>
      [] a = "reject" -> <<"reject">>

\* impl Display for RuleAction: a String is a sequence of tokens
RuleAction_to_string(a) ==
    CASE a = "allow" -> <<"allow">>
      [] a = "deny" -> <<"deny">>
      [] a = "reject" -> <<"reject">>

\* From<&str> for RuleAction rejecting nothing, with deny as the fallback
RuleAction_from_deny(s) ==
    LET l == to_lowercase(s)
    IN IF l = <<"allow">> THEN "allow"
       ELSE IF l = <<"reject">> THEN "reject"
       ELSE "deny"

\* impl From<&str> for RuleAction
RuleAction_from(s) ==
    LET l == to_lowercase(s)
    IN IF l = <<"allow">> THEN "allow"
       ELSE IF l = <<"deny">> THEN "deny"
       ELSE IF l = <<"reject">> THEN "reject"
       ELSE "allow"

\* impl Display for RuleDuration
RuleDuration_to_string(d) ==
    CASE d = "once" -> <<"once">>
      [] d = "until restart" -> <<"until restart">>
      [] d = "always" -> <<"always">>
      [] d = "5m" -> <<"5m">>
      [] d = "15m" -> <<"15m">>
      [] d = "30m" -> <<"30m">>
      [] d = "1h" -> <<"1h">>
      [] d = "12h" -> <<"12h">>
      [] d = "24h" -> <<"24h">>

\* impl From<&str> for RuleDuration
RuleDuration_from(s) ==
    LET l == to_lowercase(s)
    IN IF l = <<"once">> THEN "once"
       ELSE IF l = <<"until restart">> THEN "until restart"
       ELSE IF l = <<"always">> THEN "always"
       ELSE IF l = <<"5m">> THEN "5m"
       ELSE IF l = <<"15m">> THEN "15m"
       ELSE IF l = <<"30m">> THEN "30m"
       ELSE IF l = <<"1h">> THEN "1h"
       ELSE IF l = <<"12h">> THEN "12h"
       ELSE IF l = <<"24h">> THEN "24h"
       ELSE "once"

\* impl Display for OperatorType
OperatorType_to_string(t) ==
    CASE t = "simple" -> <<"simple">>
      [] t = "regexp" -> <<"regexp">>
      [] t = "network" -> <<"network">>
      [] t = "list" -> <<"list">>
      [] t = "lists" -> <<"lists">>

\* impl From<&str> for OperatorType
OperatorType_from(s) ==
    LET l == to_lowercase(s)
    IN IF l = <<"simple">> THEN "simple"
       ELSE IF l = <<"regexp">> THEN "regexp"
       ELSE IF l = <<"network">> THEN "network"
       ELSE IF l = <<"list">> THEN "list"
       ELSE IF l = <<"lists">> THEN "lists"
       ELSE "simple"

\* the enums of an alert; a variant is named by its lower-case name
AlertPriority == {"low", "medium", "high"}
AlertType == {"error", "warning", "info"}
AlertAction == {"none", "show_alert", "save_to_db"}
AlertWhat == {"generic", "proc_monitor", "firewall", "connection", "rule",
              "netlink", "kernel_event"}

\* impl From<i32> for AlertPriority
AlertPriority_from(v) ==
    CASE v = 0 -> "low"
      [] v = 1 -> "medium"
      [] v = 2 -> "high"
      [] OTHER -> "low"

\* impl From<i32> for AlertType
AlertType_from(v) ==
    CASE v = 0 -> "error"
      [] v = 1 -> "warning"
      [] v = 2 -> "info"
      [] OTHER -> "info"

\* impl From<i32> for AlertAction
AlertAction_from(v) ==
    CASE v = 0 -> "none"
      [] v = 1 -> "show_alert"
      [] v = 2 -> "save_to_db"
      [] OTHER -> "none"

\* impl From<i32> for AlertWhat
AlertWhat_from(v) ==
    CASE v = 0 -> "generic"
      [] v = 1 -> "proc_monitor"
      [] v = 2 -> "firewall"
      [] v = 3 -> "connection"
      [] v = 4 -> "rule"
      [] v = 5 -> "netlink"
      [] v = 6 -> "kernel_event"
      [] OTHER -> "generic"

\* From<proto::Alert> for models::Alert; the timestamp (Utc::now) is left out
Alert_from_proto(a) ==
    [id |-> a.id,
     alert_type |-> AlertType_from(a.type),
     action |-> AlertAction_from(a.action),
     priority |-> AlertPriority_from(a.priority),
     what |-> AlertWhat_from(a.what),
     data |-> a.data,
     node |-> "",
     acknowledged |-> FALSE]

\* bool::to_string
bool_to_string(b) == IF b THEN <<"true">> ELSE <<"false">>

RECURSIVE join(_, _)
\* [String]::join(sep)
join(strings, sep) ==
    IF strings = <<>> THEN <<>>
    ELSE IF Len(strings) = 1 THEN Head(strings)
    ELSE Head(strings) \o sep \o join(Tail(strings), sep)

\* UiService::new: the defaults of the service
default_action == "allow"
default_duration == "once"

\* create_default_rule taking the action from the wrong setting
create_default_rule_deny(conn) ==
    Rule_new(process_name(conn) \o <<"-", conn.dst_port>>,
             "deny", default_duration,
             Operator_simple("process.path", conn.process_path))

\* UiService::create_default_rule
create_default_rule(conn) ==
    Rule_new(process_name(conn) \o <<"-", conn.dst_port>>,
             default_action, default_duration,
             Operator_simple("process.path", conn.process_path))

\* NotificationAction values the UI sends (src/grpc/notifications.rs:8-23)
Actions == {[tag |-> "EnableInterception", data |-> <<>>]}

\* the Action enum of the daemon's schema, in the order of its ordinals
\* (the first is 0)
proto_Action ==
    <<"EnableInterception", "DisableInterception", "EnableFirewall",
      "DisableFirewall", "ReloadFwRules", "ChangeConfig", "EnableRule",
      "DisableRule", "DeleteRule", "ChangeRule", "LogLevel", "Stop",
      "TaskStart", "TaskStop">>

\* proto::Action::X as i32
proto_Action_i32(name) ==
    (CHOOSE i \in 1..Len(proto_Action) : proto_Action[i] = name) - 1

\* to_proto_action with the arm of SetLogLevel copied from Stop
to_proto_action_slip(action) ==
    proto_Action_i32(IF action.tag = "SetLogLevel" THEN "Stop" ELSE action.tag)

\* NotificationAction::to_proto_action
to_proto_action(action) ==
    proto_Action_i32(IF action.tag = "SetLogLevel" THEN "LogLevel" ELSE action.tag)

\* create_notification: type is the action's ordinal, data its payload
create_notification(id, client_name, server_name, action) ==
    [id |-> id, client_name |-> client_name, server_name |-> server_name,
     type |-> to_proto_action(action), data |-> action.data]


RECURSIVE FirstLabel(_)
\* s.split('.').next(): the tokens before the first "."
FirstLabel(s) ==
    IF s = <<>> \/ Head(s) = "." THEN <<>> ELSE <<Head(s)>> \o FirstLabel(Tail(s))

\* PromptDialog::new
PromptDialog_new(connection, node_addr, response_tx) ==
    [connection |-> connection, node_addr |-> node_addr,
     response_tx |-> Some(response_tx), action |-> "allow", duration |-> "once",
     match_dest_host |-> TRUE, match_dest_ip |-> FALSE, match_dest_port |-> FALSE,
     match_user |-> FALSE, match_checksum |-> FALSE]

\* PromptDialog::create_rule wrapping its operators in a list whatever their
\* number
create_rule_wrapped(d) ==
    LET c == d.connection
        name == process_name(c) \o <<"-">>
                \o (IF c.dst_host # <<>> THEN FirstLabel(c.dst_host) ELSE c.dst_ip)
        operators ==
            <<Operator_simple("process.path", c.process_path)>>
            \o (IF d.match_dest_host /\ c.dst_host # <<>>
                THEN <<Operator_simple("dest.host", c.dst_host)>> ELSE <<>>)
            \o (IF d.match_dest_ip /\ c.dst_ip # <<>>
                THEN <<Operator_simple("dest.ip", c.dst_ip)>> ELSE <<>>)
            \o (IF d.match_dest_port
                THEN <<Operator_simple("dest.port", <<c.dst_port>>)>> ELSE <<>>)
            \o (IF d.match_user
                THEN <<Operator_simple("user.id", <<c.user_id>>)>> ELSE <<>>)
            \o (IF d.match_checksum /\ "md5" \in DOMAIN c.process_checksums
                THEN <<Operator_simple("process.hash.md5", c.process_checksums["md5"])>>
                ELSE <<>>)
        operator == [op_type |-> "list", operand |-> "list", data |-> <<>>,
                     sensitive |-> FALSE, list |-> operators]
    IN Rule_new(name, d.action, d.duration, operator)

\* PromptDialog::create_rule
create_rule(d) ==
    LET c == d.connection
        name == process_name(c) \o <<"-">>
                \o (IF c.dst_host # <<>> THEN FirstLabel(c.dst_host) ELSE c.dst_ip)
        operators ==
            <<Operator_simple("process.path", c.process_path)>>
            \o (IF d.match_dest_host /\ c.dst_host # <<>>
                THEN <<Operator_simple("dest.host", c.dst_host)>> ELSE <<>>)
            \o (IF d.match_dest_ip /\ c.dst_ip # <<>>
                THEN <<Operator_simple("dest.ip", c.dst_ip)>> ELSE <<>>)
            \o (IF d.match_dest_port
                THEN <<Operator_simple("dest.port", <<c.dst_port>>)>> ELSE <<>>)
            \o (IF d.match_user
                THEN <<Operator_simple("user.id", <<c.user_id>>)>> ELSE <<>>)
            \o (IF d.match_checksum /\ "md5" \in DOMAIN c.process_checksums
                THEN <<Operator_simple("process.hash.md5", c.process_checksums["md5"])>>
                ELSE <<>>)
        operator == IF Len(operators) = 1 THEN operators[1]
                    ELSE [op_type |-> "list", operand |-> "list", data |-> <<>>,
                          sensitive |-> FALSE, list |-> operators]
    IN Rule_new(name, d.action, d.duration, operator)

\* PromptDialog::confirm that sends through a sender it keeps, dialog left open
confirm_keep(d) ==
    [dialog |-> d, send |-> Some(create_rule(d)), tx |-> d.response_tx, done |-> FALSE]

\* PromptDialog::confirm: the rule goes to the sender taken out of the dialog
confirm(d) ==
    [dialog |-> [d EXCEPT !.response_tx = None],
     send |-> IF d.response_tx # None THEN Some(create_rule(d)) ELSE None,
     tx |-> d.response_tx, done |-> TRUE]

\* PromptDialog::cancel: the rule is sent as allow, once
cancel(d) ==
    [dialog |-> [d EXCEPT !.response_tx = None],
     send |-> IF d.response_tx # None
              THEN Some([create_rule(d) EXCEPT !.action = "allow", !.duration = "once"])
              ELSE None,
     tx |-> d.response_tx, done |-> TRUE]

\* the keys of PromptDialog::handle_key that end the dialog
Keys == {"a", "d", "r", "Enter", "Esc"}

\* PromptDialog::handle_key
handle_key(d, key) ==
    CASE key = "a" -> confirm([d EXCEPT !.action = "allow"])
      [] key = "d" -> confirm([d EXCEPT !.action = "deny"])
      [] key = "r" -> confirm([d EXCEPT !.action = "reject"])
      [] key = "Enter" -> confirm(d)
      [] key = "Esc" -> cancel(d)

\* a oneshot channel: both halves alive, nothing sent
oneshot_channel == [tx |-> "open", rx |-> "open", value |-> None, sent |-> 0]

\* oneshot::Sender::send: the value is stored while the receiver is alive
oneshot_send(sink, rule) ==
    [sink EXCEPT !.tx = "sent", !.sent = @ + 1,
                 !.value = IF sink.rx = "open" THEN Some(rule) ELSE @]


-----------------------------------------------------------------------------
(* Node and NodeManager (src/models/node.rs)                               *)

\* ClientConfig values a daemon sends with Subscribe
Configs ==
    { [name |-> "host1", version |-> "1.6", is_firewall_running |-> TRUE,
       config |-> "{}", log_level |-> 1, rules |-> <<>>, system_firewall |-> None] }

\* Node::new
Node_new(addr) ==
    [addr |-> addr, name |-> "", version |-> "", status |-> "Connecting",
     firewall_running |-> FALSE, log_level |-> 0, config |-> "",
     rules |-> <<>>, firewall |-> None, statistics |-> None,
     notifications_enabled |-> FALSE]

\* update_from_config adding the config's rules to those the node has
update_from_config_extend(node, config) ==
    [node EXCEPT !.name = config.name, !.version = config.version,
                 !.firewall_running = config.is_firewall_running,
                 !.log_level = config.log_level, !.config = config.config,
                 !.rules = @ \o config.rules, !.firewall = config.system_firewall,
                 !.status = "Connected"]

\* Node::update_from_config
update_from_config(node, config) ==
    [node EXCEPT !.name = config.name, !.version = config.version,
                 !.firewall_running = config.is_firewall_running,
                 !.log_level = config.log_level, !.config = config.config,
                 !.rules = config.rules, !.firewall = config.system_firewall,
                 !.status = "Connected"]

\* Node::disconnect starting the record afresh
disconnect_reset(node) == [Node_new(node.addr) EXCEPT !.status = "Disconnected"]

\* Node::disconnect
disconnect(node) == [node EXCEPT !.status = "Disconnected"]

\* Node::update_stats
update_stats(node, stats) == [node EXCEPT !.statistics = Some(stats)]

\* add_node setting the cursor only when the map had no entry at all
add_node_first_only(nm, addr, config) ==
    LET entry == IF addr \in DOMAIN nm.nodes THEN nm.nodes[addr]
                 ELSE [Node_new(addr) EXCEPT !.notifications_enabled = TRUE]
        node == update_from_config(entry, config)
    IN [nodes |-> [a \in DOMAIN nm.nodes \cup {addr} |->
                     IF a = addr THEN node ELSE nm.nodes[a]],
        active_node |-> IF DOMAIN nm.nodes = {} THEN Some(addr)
                        ELSE nm.active_node]

\* NodeManager::add_node, on nm = [nodes, active_node]
add_node(nm, addr, config) ==
    LET entry == IF addr \in DOMAIN nm.nodes THEN nm.nodes[addr]
                 ELSE [Node_new(addr) EXCEPT !.notifications_enabled = TRUE]
        node == update_from_config(entry, config)
    IN [nodes |-> [a \in DOMAIN nm.nodes \cup {addr} |->
                     IF a = addr THEN node ELSE nm.nodes[a]],
        active_node |-> IF nm.active_node = None THEN Some(addr)
                        ELSE nm.active_node]

\* remove_node taking the entry out of the map and leaving the cursor alone
remove_node_forget(nm, addr) ==
    {[nodes |-> [a \in DOMAIN nm.nodes \ {addr} |-> nm.nodes[a]],
      active_node |-> nm.active_node]}

\* remove_node looking for a connected node before it marks addr disconnected
remove_node_stale(nm, addr) ==
    LET ns == [a \in DOMAIN nm.nodes |->
                 IF a = addr THEN disconnect(nm.nodes[a]) ELSE nm.nodes[a]]
        connected == {a \in DOMAIN nm.nodes : nm.nodes[a].status = "Connected"}
    IN IF nm.active_node = Some(addr)
       THEN IF connected = {}
            THEN {[nodes |-> ns, active_node |-> None]}
            ELSE {[nodes |-> ns, active_node |-> Some(a)] : a \in connected}
       ELSE {[nodes |-> ns, active_node |-> nm.active_node]}

\* NodeManager::remove_node: the results the HashMap's iteration order allows
remove_node(nm, addr) ==
    LET ns == [a \in DOMAIN nm.nodes |->
                 IF a = addr THEN disconnect(nm.nodes[a]) ELSE nm.nodes[a]]
        connected == {a \in DOMAIN ns : ns[a].status = "Connected"}
    IN IF nm.active_node = Some(addr)
       THEN IF connected = {}
            THEN {[nodes |-> ns, active_node |-> None]}
            ELSE {[nodes |-> ns, active_node |-> Some(a)] : a \in connected}
       ELSE {[nodes |-> ns, active_node |-> nm.active_node]}

-----------------------------------------------------------------------------
(* AppMessage (src/app/state.rs:18-95)                                     *)

MsgNodeConnected(addr, config) ==
    [type |-> "NodeConnected", addr |-> addr, config |-> config]
\* stream: the Notifications stream whose reader sent it (not read by the actor)
MsgNodeDisconnected(addr, stream) ==
    [type |-> "NodeDisconnected", addr |-> addr, stream |-> stream]
MsgStatsUpdate(addr, stats) ==
    [type |-> "StatsUpdate", node_addr |-> addr, stats |-> stats]
\* tx: the Sender, named by its stream
MsgNotificationChannelOpened(addr, tx) ==
    [type |-> "NotificationChannelOpened", node_addr |-> addr, tx |-> tx]
MsgNotificationReply(addr, id) ==
    [type |-> "NotificationReply", node_addr |-> addr, id |-> id]
MsgConnectionEvent(addr, event) ==
    [type |-> "ConnectionEvent", node_addr |-> addr, event |-> event]
\* seq: the order of submission, which stands for the time Event::new stamps
MsgNewConnection(addr, connection, seq) ==
    [type |-> "NewConnection", node_addr |-> addr, connection |-> connection,
     seq |-> seq]
MsgConnectionPrompt(addr, connection, response_tx) ==
    [type |-> "ConnectionPrompt", node_addr |-> addr, connection |-> connection,
     response_tx |-> response_tx]
MsgRuleAdded(addr, rule) == [type |-> "RuleAdded", node_addr |-> addr, rule |-> rule]
MsgRuleModified(addr, rule) ==
    [type |-> "RuleModified", node_addr |-> addr, rule |-> rule]
MsgRuleDeleted(addr, name) ==
    [type |-> "RuleDeleted", node_addr |-> addr, name |-> name]
MsgRuleToggled(addr, name, enabled) ==
    [type |-> "RuleToggled", node_addr |-> addr, name |-> name, enabled |-> enabled]
MsgFirewallConfigUpdate(addr, config) ==
    [type |-> "FirewallConfigUpdate", node_addr |-> addr, config |-> config]
MsgAlertReceived(alert) == [type |-> "AlertReceived", alert |-> alert]
MsgSendNotification(addr, action) ==
    [type |-> "SendNotification", node_addr |-> addr, action |-> action]
MsgPromptResponse(rule) == [type |-> "PromptResponse", rule |-> rule]

\* UiUpdateSignal (src/app/state.rs:99-108)
UiUpdateSignal ==
    {"NodeChanged", "StatsUpdated", "ConnectionsUpdated", "RulesUpdated",
     "FirewallUpdated", "AlertsUpdated", "PromptReceived", "Redraw"}

-----------------------------------------------------------------------------
(* Durable store (src/db/sqlite.rs, src/db/queries.rs)                     *)

\* where a store call fails: 0 = nowhere, k = at its k-th statement
DbFailPoints == {0, 1}

\* the UNIQUE columns of a connections row
FlowKey(event) ==
    LET c == event.connection
    IN [node |-> <<>>,      \* "", // node - set by caller
        action |-> IF IsSome(event.rule)
                   THEN RuleAction_to_string(Unwrap(event.rule).action) ELSE <<>>,
        protocol |-> c.protocol, src_ip |-> c.src_ip, src_port |-> c.src_port,
        dst_ip |-> c.dst_ip, dst_port |-> c.dst_port, uid |-> c.user_id,
        pid |-> c.process_id, process |-> c.process_path,
        process_args |-> join(c.process_args, <<" ">>)]

\* the upsert of a counter table: INSERT ... ON CONFLICT DO UPDATE hits + 1
Upsert(table, what) ==
    [w \in DOMAIN table \cup {what} |->
        IF w \in DOMAIN table THEN table[w] + (IF w = what THEN 1 ELSE 0) ELSE 1]

\* the rows of a table whose UNIQUE columns are key, in rowid order
RowsOf(table, key) ==
    LET Same(r) == r.key = key
    IN SelectSeq(table, Same)

\* DELETE of the rows whose UNIQUE columns are key
Delete(table, key) ==
    LET Other(r) == r.key # key
    IN SelectSeq(table, Other)

\* a plain INSERT: the row is added whatever the table holds
Insert(table, key, row) == Append(table, [key |-> key, row |-> row])

\* INSERT OR REPLACE: the rows that conflict on the UNIQUE columns are
\* deleted, then the row is inserted (with a new rowid)
Replace(table, key, row) == Append(Delete(table, key), [key |-> key, row |-> row])

\* Database::insert_connection: the statements run before the failing one
insert_connection(d, event, fail) ==
    LET c == event.connection
        runs(k) == fail = 0 \/ k < fail
        d1 == IF runs(1)
              THEN [d EXCEPT !.connections =
                      Replace(@, FlowKey(event),
                              [time |-> event.seq, dst_host |-> c.dst_host,
                               process_cwd |-> c.process_cwd,
                               rule |-> IF IsSome(event.rule)
                                        THEN Unwrap(event.rule).name ELSE <<>>])]
              ELSE d
        d2 == IF runs(2) /\ c.dst_host # <<>>
              THEN [d1 EXCEPT !.hosts = Upsert(@, c.dst_host)] ELSE d1
        d3 == IF runs(3) THEN [d2 EXCEPT !.procs = Upsert(@, c.process_path)] ELSE d2
        d4 == IF runs(4) /\ c.dst_ip # <<>>
              THEN [d3 EXCEPT !.addrs = Upsert(@, c.dst_ip)] ELSE d3
        d5 == IF runs(5) THEN [d4 EXCEPT !.ports = Upsert(@, c.dst_port)] ELSE d4
    IN IF runs(6) THEN [d5 EXCEPT !.users = Upsert(@, c.user_id)] ELSE d5

\* Database::insert_alert
insert_alert(d, alert, fail) ==
    IF fail = 0 THEN [d EXCEPT !.alerts = Append(@, alert)] ELSE d

\* the columns insert_rule and update_rule bind, but for node, name and the
\* timestamps: the operator's nested list has no column
rule_row(rule) ==
    [enabled |-> bool_to_string(rule.enabled),
     precedence |-> bool_to_string(rule.precedence),
     action |-> RuleAction_to_string(rule.action),
     duration |-> RuleDuration_to_string(rule.duration),
     operator_type |-> OperatorType_to_string(rule.operator.op_type),
     operator_sensitive |-> bool_to_string(rule.operator.sensitive),
     operator_operand |-> rule.operator.operand,
     operator_data |-> rule.operator.data,
     description |-> rule.description,
     nolog |-> bool_to_string(rule.nolog)]

\* insert_rule adding a row whatever the table holds
insert_rule_append(d, node, rule, fail) ==
    IF fail = 0
    THEN [d EXCEPT !.rules =
            Append(@, [key |-> <<node, rule.name>>, row |-> rule_row(rule)])]
    ELSE d

\* Database::insert_rule
insert_rule(d, node, rule, fail) ==
    IF fail = 0
    THEN [d EXCEPT !.rules = Replace(@, <<node, rule.name>>, rule_row(rule))]
    ELSE d

\* Database::update_rule: UPDATE ... WHERE node = ? AND name = ?
update_rule(d, node, rule, fail) ==
    IF fail = 0
    THEN [d EXCEPT !.rules =
            [i \in DOMAIN @ |->
               IF @[i].key = <<node, rule.name>>
               THEN [key |-> @[i].key, row |-> rule_row(rule)] ELSE @[i]]]
    ELSE d

\* Database::row_to_rule
row_to_rule(name, row) ==
    [name |-> name, description |-> row.description,
     enabled |-> row.enabled = <<"true">>,
     precedence |-> row.precedence = <<"true">>,
     nolog |-> row.nolog = <<"true">>,
     action |-> RuleAction_from(row.action),
     duration |-> RuleDuration_from(row.duration),
     operator |-> [op_type |-> OperatorType_from(row.operator_type),
                   operand |-> row.operator_operand,
                   data |-> row.operator_data,
                   sensitive |-> row.operator_sensitive = <<"true">>,
                   list |-> <<>>]]

\* Database::delete_rule
delete_rule(d, node, name, fail) ==
    IF fail = 0
    THEN [d EXCEPT !.rules = Delete(@, <<node, name>>)] ELSE d

EmptyDb ==
    [connections |-> <<>>, alerts |-> <<>>, rules |-> <<>>, hosts |-> <<>>,
     procs |-> <<>>, addrs |-> <<>>, ports |-> <<>>, users |-> <<>>]

-----------------------------------------------------------------------------
(* AppState (src/app/state.rs:118-201)                                     *)

RECURSIVE pop_back_late(_, _)
\* the trimming loop with its test off by one: while ring.len() > max + 1
pop_back_late(ring, max) ==
    IF Len(ring) > max + 1 THEN pop_back_late(SubSeq(ring, 1, Len(ring) - 1), max)
    ELSE ring

RECURSIVE pop_back_while(_, _)
\* while ring.len() > max { ring.pop_back(); }
pop_back_while(ring, max) ==
    IF Len(ring) > max THEN pop_back_while(SubSeq(ring, 1, Len(ring) - 1), max)
    ELSE ring

\* add_connection pushing at the back, so that the trimming evicts the newest
add_connection_push_back(ring, event) ==
    pop_back_while(ring \o <<event>>, max_connections)

\* AppState::add_connection, the ring: push_front, then trim from the back
add_connection(ring, event) == pop_back_while(<<event>> \o ring, max_connections)

\* AppState::add_alert, the ring
add_alert(ring, alert) == pop_back_while(<<alert>> \o ring, max_alerts)

-----------------------------------------------------------------------------
(* run_state_manager (src/app/state.rs:204-375): the statements of each    *)
(* arm of the match, in source order.                                      *)

Stmt(op, arg) == [op |-> op, arg |-> arg]
Drop(lock) == Stmt("drop", lock)
Notify(signal) == Stmt("notify", signal)

\* add_connection handing its guard back to the arm
CallAddConnection_held(event) == <<Stmt("add_connection", event)>>

\* state.add_connection(event).await: the guard lives to the end of the call
CallAddConnection(event) == <<Stmt("add_connection", event), Drop("connections")>>

RECURSIVE ForEachAddConnection_rev(_)
\* the loop walking the batch from its last event to its first
ForEachAddConnection_rev(events) ==
    IF events = <<>> THEN <<>>
    ELSE ForEachAddConnection_rev(Tail(events)) \o CallAddConnection(Head(events))

RECURSIVE ForEachAddConnection(_)
\* for event in &stats.events { state.add_connection(event.clone()).await; }
ForEachAddConnection(events) ==
    IF events = <<>> THEN <<>>
    ELSE CallAddConnection(Head(events)) \o ForEachAddConnection(Tail(events))

\* the StatsUpdate arm sending ConnectionsUpdated whatever the batch holds
StatsUpdate_signals_always(stats) ==
    <<Notify("StatsUpdated"), Notify("ConnectionsUpdated")>>

\* the signals that end the StatsUpdate arm
StatsUpdate_signals(stats) ==
    <<Notify("StatsUpdated")>>
    \o (IF stats.events # <<>> THEN <<Notify("ConnectionsUpdated")>> ELSE <<>>)

Arm(msg) ==
    CASE msg.type = "NodeConnected" ->
           <<Stmt("nodes", msg), Drop("nodes"), Notify("NodeChanged")>>
      [] msg.type = "NodeDisconnected" ->
           <<Stmt("nodes", msg), Drop("nodes"),
             Stmt("channels", msg), Drop("notification_channels"),
             Notify("NodeChanged")>>
      [] msg.type = "StatsUpdate" ->
           ForEachAddConnection(msg.stats.events)
           \o <<Stmt("nodes", msg), Drop("nodes")>>
           \o StatsUpdate_signals(msg.stats)
      [] msg.type = "NotificationChannelOpened" ->
           <<Stmt("channels", msg), Drop("notification_channels")>>
      [] msg.type = "NotificationReply" -> <<>>
      [] msg.type = "ConnectionPrompt" ->
           <<Stmt("prompts", msg), Drop("pending_prompts"), Notify("PromptReceived")>>
      [] msg.type = "ConnectionEvent" ->
           CallAddConnection(msg.event) \o <<Notify("ConnectionsUpdated")>>
      [] msg.type = "NewConnection" ->
           CallAddConnection(Event(msg.seq, msg.connection))
           \o <<Notify("ConnectionsUpdated")>>
      [] msg.type \in {"RuleAdded", "RuleModified", "RuleDeleted"} ->
           <<Stmt("nodes", msg), Drop("nodes"), Stmt("db", msg), Notify("RulesUpdated")>>
      [] msg.type = "RuleToggled" ->
           <<Stmt("nodes", msg), Drop("nodes"), Notify("RulesUpdated")>>
      [] msg.type = "FirewallConfigUpdate" ->
           <<Stmt("nodes", msg), Drop("nodes"), Notify("FirewallUpdated")>>
      [] msg.type = "AlertReceived" ->
           <<Stmt("add_alert", msg.alert), Drop("alerts"), Notify("AlertsUpdated")>>
      [] msg.type = "SendNotification" ->
           <<Stmt("channels_get", msg), Stmt("tx_send", msg),
             Drop("notification_channels")>>
      [] msg.type = "PromptResponse" -> <<>>

\* position of the first rule named name, 0 when there is none (iter().find)
FirstNamed(rules, name) ==
    IF \E i \in 1..Len(rules) : rules[i].name = name
    THEN CHOOSE i \in 1..Len(rules) :
           /\ rules[i].name = name
           /\ \A j \in 1..(i - 1) : rules[j].name # name
    ELSE 0

\* retain keeping every rule
retain_all(rules, name) == rules

RECURSIVE retain_not_named(_, _)
\* rules.retain(|r| r.name != name)
retain_not_named(rules, name) ==
    IF rules = <<>> THEN <<>>
    ELSE (IF Head(rules).name # name THEN <<Head(rules)>> ELSE <<>>)
         \o retain_not_named(Tail(rules), name)

\* the write each arm makes under the nodes lock: the NodeManagers it can leave
NodesWrite(msg, nm) ==
    LET found == msg.node_addr \in DOMAIN nm.nodes      \* get_node_mut is Some
        n == nm.nodes[msg.node_addr]
        put(n2) == {[nm EXCEPT !.nodes[msg.node_addr] = n2]}
        modified == LET i == FirstNamed(n.rules, msg.rule.name)
                    IN IF i = 0 THEN n ELSE [n EXCEPT !.rules[i] = msg.rule]
        toggled == LET i == FirstNamed(n.rules, msg.name)
                   IN IF i = 0 THEN n ELSE [n EXCEPT !.rules[i].enabled = msg.enabled]
    IN CASE msg.type = "NodeConnected" -> {add_node(nm, msg.addr, msg.config)}
         [] msg.type = "NodeDisconnected" -> remove_node(nm, msg.addr)
         [] ~found -> {nm}
         [] msg.type = "StatsUpdate" -> put(update_stats(n, msg.stats))
         [] msg.type = "RuleAdded" -> put([n EXCEPT !.rules = Append(@, msg.rule)])
         [] msg.type = "RuleModified" -> put(modified)
         [] msg.type = "RuleDeleted" ->
              put([n EXCEPT !.rules = retain_not_named(@, msg.name)])
         [] msg.type = "RuleToggled" -> put(toggled)
         [] msg.type = "FirewallConfigUpdate" ->
              put([n EXCEPT !.firewall = Some(msg.config)])

\* the NodeDisconnected arm leaving the peer's queue in the map
ChannelsWrite_keep(msg, channels) ==
    CASE msg.type = "NodeDisconnected" -> channels
      [] msg.type = "NotificationChannelOpened" ->
           [a \in DOMAIN channels \cup {msg.node_addr} |->
              IF a = msg.node_addr THEN msg.tx ELSE channels[a]]

\* the write each arm makes under the notification_channels lock
ChannelsWrite(msg, channels) ==
    CASE msg.type = "NodeDisconnected" ->
           [a \in DOMAIN channels \ {msg.addr} |-> channels[a]]
      [] msg.type = "NotificationChannelOpened" ->
           [a \in DOMAIN channels \cup {msg.node_addr} |->
              IF a = msg.node_addr THEN msg.tx ELSE channels[a]]

\* the store call of a rule arm, made after the nodes guard is dropped
RuleDbWrite(msg, d, fail) ==
    CASE msg.type = "RuleAdded" -> insert_rule(d, msg.node_addr, msg.rule, fail)
      [] msg.type = "RuleModified" -> update_rule(d, msg.node_addr, msg.rule, fail)
      [] msg.type = "RuleDeleted" -> delete_rule(d, msg.node_addr, msg.name, fail)

\* broadcast::Sender::send as the UI's receiver sees it: a full buffer loses
\* its oldest value and the receiver is marked lagged
broadcast_send(r, signal) ==
    IF Len(r.buf) < BroadcastCapacity
    THEN [r EXCEPT !.buf = Append(@, signal)]
    ELSE [buf |-> Append(Tail(r.buf), signal), lagged |-> TRUE]

-----------------------------------------------------------------------------
(* Initial state: AppState::new, no task started                           *)

Init ==
    /\ rx = <<>>
    /\ nodes = <<>>
    /\ active_node = None
    /\ connections = <<>>
    /\ alerts = <<>>
    /\ pending_prompts = <<>>
    /\ notification_channels = <<>>
    /\ outbound = <<>>
    /\ notification_id = 1
    /\ db = EmptyDb
    /\ ui_update_rx = [buf |-> <<>>, lagged |-> FALSE]
    /\ cur = None
    /\ ops = <<>>
    /\ held = {}
    /\ emitted = <<>>
    /\ pre_active = None
    /\ streams = <<>>
    /\ asks = <<>>
    /\ sinks = <<>>
    /\ prompt_dialog = None
    /\ replies = <<>>
    /\ clock = [events |-> 0, alerts |-> 0, commands |-> 0, stats |-> 0]

-----------------------------------------------------------------------------
(* The state actor: one action per kind of statement                       *)

actor_vars == <<cur, ops, held, emitted, pre_active>>
model_vars == <<nodes, active_node, connections, alerts, pending_prompts,
                notification_channels, db>>
env_vars == <<streams, asks, sinks, prompt_dialog, replies, clock>>

Running(op) == ops # <<>> /\ Head(ops).op = op

\* recv handing out the command sent last
Recv_newest ==
    /\ ops = <<>>
    /\ rx # <<>>
    /\ cur' = Some(rx[Len(rx)])
    /\ ops' = Arm(rx[Len(rx)])
    /\ rx' = SubSeq(rx, 1, Len(rx) - 1)
    /\ emitted' = <<>>
    /\ pre_active' = active_node
    /\ UNCHANGED <<model_vars, env_vars, held, outbound, notification_id, ui_update_rx>>

\* while let Some(msg) = rx.recv().await { match msg {
Recv ==
    /\ ops = <<>>
    /\ rx # <<>>
    /\ cur' = Some(Head(rx))
    /\ ops' = Arm(Head(rx))
    /\ rx' = Tail(rx)
    /\ emitted' = <<>>
    /\ pre_active' = active_node
    /\ UNCHANGED <<model_vars, env_vars, held, outbound, notification_id, ui_update_rx>>

\* let mut nodes = state.nodes.write().await; and the write made under it
ExecNodes ==
    /\ Running("nodes")
    /\ \E nm \in NodesWrite(Head(ops).arg, [nodes |-> nodes, active_node |-> active_node]) :
         /\ nodes' = nm.nodes
         /\ active_node' = nm.active_node
    /\ held' = held \cup {"nodes"}
    /\ ops' = Tail(ops)
    /\ UNCHANGED <<rx, connections, alerts, pending_prompts, notification_channels,
                   db, outbound, notification_id, ui_update_rx, cur, emitted,
                   pre_active, env_vars>>

\* add_connection giving up the ring's new entry when the store call fails
ExecAddConnection_rollback ==
    /\ Running("add_connection")
    /\ \E fail \in DbFailPoints :
         /\ db' = insert_connection(db, Head(ops).arg, fail)
         /\ connections' = IF fail = 0
                           THEN add_connection(connections, Head(ops).arg)
                           ELSE connections
    /\ held' = held \cup {"connections"}
    /\ ops' = Tail(ops)
    /\ UNCHANGED <<rx, nodes, active_node, alerts, pending_prompts,
                   notification_channels, outbound, notification_id, ui_update_rx,
                   cur, emitted, pre_active, env_vars>>

\* AppState::add_connection up to its return (the guard is still alive)
ExecAddConnection ==
    /\ Running("add_connection")
    /\ connections' = add_connection(connections, Head(ops).arg)
    /\ \E fail \in DbFailPoints : db' = insert_connection(db, Head(ops).arg, fail)
    /\ held' = held \cup {"connections"}
    /\ ops' = Tail(ops)
    /\ UNCHANGED <<rx, nodes, active_node, alerts, pending_prompts,
                   notification_channels, outbound, notification_id, ui_update_rx,
                   cur, emitted, pre_active, env_vars>>

\* AppState::add_alert up to its return
ExecAddAlert ==
    /\ Running("add_alert")
    /\ alerts' = add_alert(alerts, Head(ops).arg)
    /\ \E fail \in DbFailPoints : db' = insert_alert(db, Head(ops).arg, fail)
    /\ held' = held \cup {"alerts"}
    /\ ops' = Tail(ops)
    /\ UNCHANGED <<rx, nodes, active_node, connections, pending_prompts,
                   notification_channels, outbound, notification_id, ui_update_rx,
                   cur, emitted, pre_active, env_vars>>

\* drop(guard), or the end of the guard's scope
ExecDrop ==
    /\ Running("drop")
    /\ held' = held \ {Head(ops).arg}
    /\ ops' = Tail(ops)
    /\ UNCHANGED <<rx, model_vars, outbound, notification_id, ui_update_rx, cur,
                   emitted, pre_active, env_vars>>

\* let mut channels = state.notification_channels.write().await; and the write
ExecChannels ==
    /\ Running("channels")
    /\ notification_channels' = ChannelsWrite(Head(ops).arg, notification_channels)
    /\ held' = held \cup {"notification_channels"}
    /\ ops' = Tail(ops)
    /\ UNCHANGED <<rx, nodes, active_node, connections, alerts, pending_prompts, db,
                   outbound, notification_id, ui_update_rx, cur, emitted,
                   pre_active, env_vars>>

\* let _ = ui_update_tx.send(signal);
NotifyUi ==
    /\ Running("notify")
    /\ emitted' = Append(emitted, Head(ops).arg)
    /\ ui_update_rx' = broadcast_send(ui_update_rx, Head(ops).arg)
    /\ ops' = Tail(ops)
    /\ UNCHANGED <<rx, model_vars, outbound, notification_id, cur, held,
                   pre_active, env_vars>>

\* the ConnectionPrompt arm pushing the prompt at the front of the deque
ExecPrompts_push_front ==
    /\ Running("prompts")
    /\ pending_prompts' = <<[node_addr |-> Head(ops).arg.node_addr,
                                  connection |-> Head(ops).arg.connection,
                                  response_tx |-> Head(ops).arg.response_tx]>>
                         \o pending_prompts
    /\ held' = held \cup {"pending_prompts"}
    /\ ops' = Tail(ops)
    /\ UNCHANGED <<rx, nodes, active_node, connections, alerts,
                   notification_channels, db, outbound, notification_id,
                   ui_update_rx, cur, emitted, pre_active, env_vars>>

\* state.pending_prompts.write().await.push_back(PendingPrompt { .. })
ExecPrompts ==
    /\ Running("prompts")
    /\ pending_prompts' = Append(pending_prompts,
                                 [node_addr |-> Head(ops).arg.node_addr,
                                  connection |-> Head(ops).arg.connection,
                                  response_tx |-> Head(ops).arg.response_tx])
    /\ held' = held \cup {"pending_prompts"}
    /\ ops' = Tail(ops)
    /\ UNCHANGED <<rx, nodes, active_node, connections, alerts,
                   notification_channels, db, outbound, notification_id,
                   ui_update_rx, cur, emitted, pre_active, env_vars>>

\* the store call of a rule arm; its error is logged and dropped
ExecDb ==
    /\ Running("db")
    /\ \E fail \in DbFailPoints : db' = RuleDbWrite(Head(ops).arg, db, fail)
    /\ ops' = Tail(ops)
    /\ UNCHANGED <<rx, nodes, active_node, connections, alerts, pending_prompts,
                   notification_channels, outbound, notification_id, ui_update_rx,
                   cur, held, emitted, pre_active, env_vars>>

\* send_notification making an entry for a node that has none
ExecChannelsGet_register ==
    /\ Running("channels_get")
    /\ held' = held \cup {"notification_channels"}
    /\ LET msg == Head(ops).arg
       IN notification_channels' =
            [a \in DOMAIN notification_channels \cup {msg.node_addr} |->
               IF a \in DOMAIN notification_channels THEN notification_channels[a]
               ELSE 0]
    /\ ops' = Tail(Tail(ops))
    /\ UNCHANGED <<rx, nodes, active_node, connections, alerts, pending_prompts, db,
                   notification_id, outbound, ui_update_rx, cur, emitted, pre_active,
                   env_vars>>

\* AppState::send_notification up to tx.send: the read guard is taken, and
\* with a channel registered the notification is built with the next id
ExecChannelsGet ==
    /\ Running("channels_get")
    /\ held' = held \cup {"notification_channels"}
    /\ LET msg == Head(ops).arg
       IN IF msg.node_addr \in DOMAIN notification_channels
          THEN /\ notification_id' = notification_id + 1
               /\ ops' = <<Stmt("tx_send",
                                [tx |-> notification_channels[msg.node_addr],
                                 notification |->
                                   create_notification(notification_id, msg.node_addr,
                                                       "opensnitch-tui", msg.action)])>>
                         \o Tail(Tail(ops))
          ELSE /\ ops' = Tail(Tail(ops))
               /\ UNCHANGED notification_id
    /\ UNCHANGED <<rx, model_vars, outbound, ui_update_rx, cur, emitted,
                   pre_active, env_vars>>

\* tx.send(notification).await: Err when the receiver is gone, and no
\* progress while the queue is full
ExecTxSend ==
    /\ Running("tx_send")
    /\ LET s == Head(ops).arg.tx
       IN IF outbound[s].rx_alive
          THEN /\ Len(outbound[s].queue) < OutboundCapacity
               /\ outbound' = [outbound EXCEPT
                                 ![s].queue = Append(@, Head(ops).arg.notification)]
          ELSE UNCHANGED outbound
    /\ ops' = Tail(ops)
    /\ UNCHANGED <<rx, model_vars, notification_id, ui_update_rx, cur, held,
                   emitted, pre_active, env_vars>>

-----------------------------------------------------------------------------
(* The gRPC service (src/grpc/service.rs).  state_tx.send(..).await waits  *)
(* while the command channel is full.                                      *)

CanSend == Len(rx) < ChannelCapacity /\ clock.commands < MaxCommands

Tick(field, n) == [clock EXCEPT ![field] = @ + n, !.commands = @ + 1]

rpc_vars == <<model_vars, outbound, notification_id, ui_update_rx, actor_vars>>

\* the events a daemon embeds in one Statistics push, numbered from n + 1
RECURSIVE Batch(_, _, _)
Batch(n, k, c) == IF k = 0 THEN <<>> ELSE <<Event(n + 1, c)>> \o Batch(n + 1, k - 1, c)

\* UiService::ping replying with a PingReply of its own making
ping_default_reply(peer, id, stats) ==
    /\ IF IsSome(stats)
       THEN /\ CanSend
            /\ rx' = Append(rx, MsgStatsUpdate(peer, Unwrap(stats)))
            /\ clock' = [Tick("events", Len(Unwrap(stats).events)) EXCEPT !.stats = @ + 1]
       ELSE UNCHANGED <<rx, clock>>
    /\ replies' = Some([rpc |-> "Ping", arg |-> <<peer, id, stats>>,
                        reply |-> [id |-> 0]])
    /\ UNCHANGED <<rpc_vars, streams, asks, sinks, prompt_dialog>>

\* UiService::ping
ping(peer, id, stats) ==
    /\ IF IsSome(stats)
       THEN /\ CanSend
            /\ rx' = Append(rx, MsgStatsUpdate(peer, Unwrap(stats)))
            /\ clock' = [Tick("events", Len(Unwrap(stats).events)) EXCEPT !.stats = @ + 1]
       ELSE UNCHANGED <<rx, clock>>
    /\ replies' = Some([rpc |-> "Ping", arg |-> <<peer, id, stats>>,
                        reply |-> [id |-> id]])
    /\ UNCHANGED <<rpc_vars, streams, asks, sinks, prompt_dialog>>

\* UiService::ask_rule (monitor mode)
ask_rule(peer, connection) ==
    /\ CanSend
    /\ rx' = Append(rx, MsgNewConnection(peer, connection, clock.events + 1))
    /\ clock' = Tick("events", 1)
    /\ replies' = Some([rpc |-> "AskRule", connection |-> connection,
                        reply |-> create_default_rule(connection)])
    /\ UNCHANGED <<rpc_vars, streams, asks, sinks, prompt_dialog>>

\* UiService::post_alert with the converted alert sent as it is
post_alert_unstamped(peer, alert) ==
    /\ CanSend
    /\ rx' = Append(rx, MsgAlertReceived(Alert_from_proto(alert)))
    /\ clock' = Tick("alerts", 1)
    /\ replies' = Some([rpc |-> "PostAlert", arg |-> <<peer, alert>>,
                        reply |-> [id |-> 0]])
    /\ UNCHANGED <<rpc_vars, streams, asks, sinks, prompt_dialog>>

\* UiService::post_alert: the alert is converted, then the peer is stamped
\* as its node
post_alert(peer, alert) ==
    /\ CanSend
    /\ rx' = Append(rx, MsgAlertReceived([Alert_from_proto(alert) EXCEPT !.node = peer]))
    /\ clock' = Tick("alerts", 1)
    /\ replies' = Some([rpc |-> "PostAlert", arg |-> <<peer, alert>>,
                        reply |-> [id |-> 0]])
    /\ UNCHANGED <<rpc_vars, streams, asks, sinks, prompt_dialog>>

\* a command put on the channel by a holder of state_tx other than the service
submit(msg) ==
    /\ CanSend
    /\ rx' = Append(rx, msg)
    /\ clock' = Tick("events", IF msg.type = "ConnectionEvent" THEN 1 ELSE 0)
    /\ UNCHANGED <<rpc_vars, streams, asks, sinks, prompt_dialog, replies>>

\* UiService::subscribe
subscribe(peer, config) ==
    /\ CanSend
    /\ rx' = Append(rx, MsgNodeConnected(peer, config))
    /\ clock' = Tick("events", 0)
    /\ replies' = Some([rpc |-> "Subscribe", reply |-> config])
    /\ UNCHANGED <<rpc_vars, streams, asks, sinks, prompt_dialog>>

\* the command channel has room (a stream's commands are bounded by MaxStreams)
HasRoom == Len(rx) < ChannelCapacity

\* UiService::notifications up to its return: the outbound queue is created,
\* NotificationChannelOpened is sent and the reader task is spawned
notifications(peer) ==
    /\ Len(streams) < MaxStreams
    /\ HasRoom
    /\ rx' = Append(rx, MsgNotificationChannelOpened(peer, Len(streams) + 1))
    /\ streams' = Append(streams, [peer |-> peer, state |-> "open"])
    /\ outbound' = Append(outbound, [queue |-> <<>>, rx_alive |-> TRUE])
    /\ UNCHANGED <<model_vars, notification_id, ui_update_rx, actor_vars, asks,
                   sinks, prompt_dialog, replies, clock>>

\* the reader task: inbound.next() gives Ok(reply)
reader_reply(s, id) ==
    /\ s \in DOMAIN streams
    /\ streams[s].state = "open"
    /\ CanSend
    /\ rx' = Append(rx, MsgNotificationReply(streams[s].peer, id))
    /\ clock' = Tick("events", 0)
    /\ UNCHANGED <<rpc_vars, streams, asks, sinks, prompt_dialog, replies>>

\* the reader task: inbound.next() gives None or Err, the loop ends
reader_close(s) ==
    /\ s \in DOMAIN streams
    /\ streams[s].state = "open"
    /\ HasRoom
    /\ rx' = Append(rx, MsgNodeDisconnected(streams[s].peer, s))
    /\ streams' = [streams EXCEPT ![s].state = "closed"]
    /\ UNCHANGED <<rpc_vars, asks, sinks, prompt_dialog, replies, clock>>

\* the n-th alert a daemon posts: a warning with a text
AlertIn(n) ==
    [id |-> n, type |-> 1, action |-> 1, priority |-> 0, what |-> 0,
     data |-> Some(<<"t">>)]

\* the transport takes the next notification off a stream's outbound queue
outbound_recv(s) ==
    /\ s \in DOMAIN outbound
    /\ outbound[s].rx_alive
    /\ outbound[s].queue # <<>>
    /\ outbound' = [outbound EXCEPT ![s].queue = Tail(@)]
    /\ UNCHANGED <<rx, model_vars, notification_id, ui_update_rx, actor_vars, env_vars>>

\* the response stream is dropped by the transport: the Receiver is gone
outbound_drop(s) ==
    /\ s \in DOMAIN outbound
    /\ outbound[s].rx_alive
    /\ outbound' = [outbound EXCEPT ![s] = [queue |-> <<>>, rx_alive |-> FALSE]]
    /\ UNCHANGED <<rx, model_vars, notification_id, ui_update_rx, actor_vars, env_vars>>

-----------------------------------------------------------------------------
(* The prompt broker.  The interactive AskRule handler follows the         *)
(* protocol of the specification's section 4.3; the actor's and the UI's   *)
(* side are the code's.                                                    *)

\* AskRule, interactive: a oneshot channel is made and ConnectionPrompt sent
ask_rule_interactive(peer, connection) ==
    /\ Len(asks) < MaxPrompts
    /\ HasRoom
    /\ rx' = Append(rx, MsgConnectionPrompt(peer, connection, Len(asks) + 1))
    /\ sinks' = Append(sinks, oneshot_channel)
    /\ asks' = Append(asks, [peer |-> peer, connection |-> connection,
                             state |-> "waiting", reply |-> None, by |-> "none"])
    /\ UNCHANGED <<rpc_vars, streams, prompt_dialog, replies, clock>>

\* the handler's wait ends: p returns rule, and its Receiver is dropped
Return(p, rule, by) ==
    /\ asks' = [asks EXCEPT ![p] = [@ EXCEPT !.state = "returned",
                                             !.reply = Some(rule), !.by = by]]
    /\ sinks' = [sinks EXCEPT ![p].rx = "dropped"]
    /\ UNCHANGED <<rx, rpc_vars, streams, prompt_dialog, replies, clock>>

\* the wait yields the verdict sent into the channel
ask_verdict(p) ==
    /\ p \in DOMAIN asks
    /\ asks[p].state = "waiting"
    /\ sinks[p].value # None
    /\ Return(p, Unwrap(sinks[p].value), "verdict")

\* the wait finds the channel closed: the Sender was dropped unused
ask_closed(p) ==
    /\ p \in DOMAIN asks
    /\ asks[p].state = "waiting"
    /\ sinks[p].tx = "dropped"
    /\ Return(p, create_default_rule(asks[p].connection), "closed")

\* prompt_timeout elapses with no verdict in the channel
ask_deadline(p) ==
    /\ p \in DOMAIN asks
    /\ asks[p].state = "waiting"
    /\ sinks[p].value = None
    /\ Return(p, create_default_rule(asks[p].connection), "deadline")

\* the Sender a dialog still holds is dropped with it
drop_dialog(dialog, ss) ==
    IF dialog # None /\ Unwrap(dialog).response_tx # None
    THEN [ss EXCEPT ![Unwrap(Unwrap(dialog).response_tx)].tx = "dropped"]
    ELSE ss

\* TuiApp::run, one turn of its while let Ok(signal) = try_recv() loop
ui_try_recv ==
    /\ \/ ui_update_rx.lagged
       \/ ui_update_rx.buf # <<>>
    /\ IF ui_update_rx.lagged
       THEN /\ ui_update_rx' = [ui_update_rx EXCEPT !.lagged = FALSE]
            /\ UNCHANGED <<pending_prompts, prompt_dialog, sinks>>
       ELSE /\ ui_update_rx' = [ui_update_rx EXCEPT !.buf = Tail(@)]
            /\ IF Head(ui_update_rx.buf) = "PromptReceived"
               THEN /\ "pending_prompts" \notin held
                    /\ IF pending_prompts # <<>>
                       THEN LET pending == Head(pending_prompts)
                            IN /\ pending_prompts' = Tail(pending_prompts)
                               /\ prompt_dialog' =
                                    Some(PromptDialog_new(pending.connection,
                                                          pending.node_addr,
                                                          pending.response_tx))
                               /\ sinks' = drop_dialog(prompt_dialog, sinks)
                       ELSE UNCHANGED <<pending_prompts, prompt_dialog, sinks>>
               ELSE UNCHANGED <<pending_prompts, prompt_dialog, sinks>>
    /\ UNCHANGED <<rx, nodes, active_node, connections, alerts,
                   notification_channels, db, outbound, notification_id,
                   actor_vars, streams, asks, replies, clock>>

\* TuiApp::run, a key event while the prompt is shown
ui_key(key) ==
    /\ prompt_dialog # None
    /\ LET r == handle_key(Unwrap(prompt_dialog), key)
       IN /\ prompt_dialog' = IF r.done THEN None ELSE Some(r.dialog)
          /\ sinks' = IF r.send # None /\ r.tx # None
                      THEN [sinks EXCEPT ![Unwrap(r.tx)] = oneshot_send(@, Unwrap(r.send))]
                      ELSE sinks
    /\ UNCHANGED <<rx, model_vars, outbound, notification_id, ui_update_rx,
                   actor_vars, streams, asks, replies, clock>>

-----------------------------------------------------------------------------
(* Telemetry ingest: the rings                                             *)

NextRing ==
    \/ submit(MsgConnectionEvent("a", Event(clock.events + 1, Curl443)))
    \/ ask_rule("a", Curl53)
    \/ \E k \in 0..MaxBatch :
         ping("a", 7, Some([uptime |-> clock.stats + 1,
                            events |-> Batch(clock.events, k, Curl53)]))
    \/ post_alert("a", AlertIn(clock.alerts + 1))
    \/ Recv
    \/ ExecAddConnection
    \/ ExecAddAlert
    \/ ExecNodes
    \/ ExecDrop
    \/ NotifyUi

SpecRing == Init /\ [][NextRing]_vars

-----------------------------------------------------------------------------
(* Statistics pushes of a daemon, before and after it has subscribed       *)

NextStats ==
    \/ \E config \in Configs : subscribe("a", config)
    \/ \E k \in 0..MaxBatch :
         ping("a", 7, Some([uptime |-> clock.stats + 1,
                            events |-> Batch(clock.events, k, Curl53)]))
    \/ Recv
    \/ ExecAddConnection
    \/ ExecNodes
    \/ ExecDrop
    \/ NotifyUi

SpecStats == Init /\ [][NextStats]_vars

-----------------------------------------------------------------------------
(* Node lifecycle: Subscribe, and Notifications streams that end           *)

NextNodes ==
    \/ \E peer \in Addrs, config \in Configs : subscribe(peer, config)
    \/ \E peer \in Addrs : streams = <<>> /\ notifications(peer)
    \/ \E s \in DOMAIN streams : reader_close(s)
    \/ Recv
    \/ ExecNodes
    \/ ExecChannels
    \/ ExecDrop
    \/ NotifyUi

SpecNodes == Init /\ [][NextNodes]_vars

-----------------------------------------------------------------------------
(* The state actor fed with every variant of AppMessage                    *)

\* a rule the rules tab edits
Rule1 == Rule_new(<<"r1">>, "deny", "always",
                  Operator_simple("dest.port", <<"53">>))

\* the commands the UI's tabs put on the channel for node "a"
UiCommands ==
    { MsgRuleAdded("a", Rule1),
      MsgRuleModified("a", [Rule1 EXCEPT !.action = "allow"]),
      MsgRuleDeleted("a", Rule1.name),
      MsgRuleToggled("a", Rule1.name, FALSE),
      MsgFirewallConfigUpdate("a", [enabled |-> TRUE, version |-> 1]),
      MsgPromptResponse(Rule1) }
    \cup { MsgSendNotification("a", action) : action \in Actions }

\* commands are still to be drawn
Budget == clock.commands < MaxActorCommands

NextActor ==
    \/ \E config \in Configs : Budget /\ subscribe("a", config)
    \/ \E k \in 0..1 :
         /\ Budget
         /\ ping("a", 7, Some([uptime |-> clock.stats + 1,
                               events |-> Batch(clock.events, k, Curl53)]))
    \/ Budget /\ ask_rule("a", Curl53)
    \/ Budget /\ post_alert("a", AlertIn(clock.alerts + 1))
    \/ Budget /\ submit(MsgConnectionEvent("a", Event(clock.events + 1, Curl443)))
    \/ \E msg \in UiCommands : Budget /\ submit(msg)
    \/ \E s \in DOMAIN streams : Budget /\ reader_reply(s, 1)
    \/ streams = <<>> /\ notifications("a")
    \/ \E s \in DOMAIN streams : reader_close(s)
    \/ asks = <<>> /\ ask_rule_interactive("a", Curl443)
    \/ \E s \in DOMAIN outbound : outbound_recv(s)
    \/ Recv
    \/ ExecNodes
    \/ ExecAddConnection
    \/ ExecAddAlert
    \/ ExecChannels
    \/ ExecPrompts
    \/ ExecDb
    \/ ExecChannelsGet
    \/ ExecTxSend
    \/ ExecDrop
    \/ NotifyUi

SpecActor == Init /\ [][NextActor]_vars

-----------------------------------------------------------------------------
(* The life of one rule: added, disabled, deleted from the rules tab       *)

\* the k-th command the rules tab sends for rule Rule1 of node "a"
RuleScript(k) ==
    CASE k = 1 -> MsgRuleAdded("a", Rule1)
      [] k = 2 -> MsgRuleToggled("a", Rule1.name, FALSE)
      [] k = 3 -> MsgRuleDeleted("a", Rule1.name)

\* RulesTab::handle_key: let _ = state_tx.send(AppMessage::Rule.. { .. }).await
rules_tab_send(k) ==
    /\ clock.commands = k
    /\ HasRoom
    /\ rx' = Append(rx, RuleScript(k))
    /\ clock' = Tick("events", 0)
    /\ UNCHANGED <<rpc_vars, streams, asks, sinks, prompt_dialog, replies>>

\* another rule of the daemon
Rule2 == Rule_new(<<"r2">>, "allow", "always",
                  Operator_simple("process.path", <<"/", "bin", "/", "sh">>))

\* the ClientConfig of the daemon: no rule, another rule, or already a rule
\* of the script's name
ScriptConfigs ==
    { [config EXCEPT !.rules = rules] :
        config \in Configs,
        rules \in {<<>>, <<Rule2>>, <<[Rule1 EXCEPT !.action = "allow"], Rule2>>} }

NextRuleScript ==
    \/ \E config \in ScriptConfigs : clock.commands = 0 /\ subscribe("a", config)
    \/ \E k \in 1..3 : rules_tab_send(k)
    \/ Recv
    \/ ExecNodes
    \/ ExecDb
    \/ ExecDrop
    \/ NotifyUi

SpecRuleScript == Init /\ [][NextRuleScript]_vars

-----------------------------------------------------------------------------
(* The rules tab at work on a connected node, the store accepting every    *)
(* write                                                                   *)

\* the commands the rules tab sends for rule Rule1 of node "a"
RuleCommands ==
    { MsgRuleAdded("a", Rule1),
      MsgRuleModified("a", [Rule1 EXCEPT !.action = "allow"]),
      MsgRuleToggled("a", Rule1.name, FALSE),
      MsgRuleDeleted("a", Rule1.name) }

\* the store call of a rule arm returning Ok
ExecDbOk ==
    /\ ExecDb
    /\ db' = RuleDbWrite(Head(ops).arg, db, 0)

NextRuleSync ==
    \/ \E config \in Configs : clock.commands = 0 /\ subscribe("a", config)
    \/ \E msg \in RuleCommands :
         /\ clock.commands \in 1..MaxRuleCommands
         /\ submit(msg)
    \/ Recv
    \/ ExecNodes
    \/ ExecDbOk
    \/ ExecDrop
    \/ NotifyUi

SpecRuleSync == Init /\ [][NextRuleSync]_vars

-----------------------------------------------------------------------------
(* The store driven directly: Database::insert_connection                  *)

\* the statements of insert_connection at which the store may fail
InsertFailPoints == 0..6

\* the flows inserted: two that differ only outside the UNIQUE columns, one
\* with arguments, one without host, one without host and address
DbConnections ==
    { Curl443,
      [Curl443 EXCEPT !.dst_host = <<"other", ".", "org">>,
                      !.process_cwd = <<"/", "tmp">>],
      [Curl443 EXCEPT !.process_args = <<<<"-v">>, <<"-s">>>>],
      Curl53,
      [Curl53 EXCEPT !.dst_ip = <<>>] }

\* the rule an event may carry
DbEventRules == {None, Some(Rule1)}

\* the value a store call returns
Result(fail) == IF fail = 0 THEN "Ok" ELSE "Err"

\* a call of Database::insert_connection(&event)
db_insert_connection(event, fail) ==
    /\ clock.events < MaxDbCalls
    /\ db' = insert_connection(db, event, fail)
    /\ replies' = Some([rpc |-> "insert_connection", arg |-> event,
                        reply |-> Result(fail)])
    /\ clock' = [clock EXCEPT !.events = @ + 1]
    /\ UNCHANGED <<rx, nodes, active_node, connections, alerts, pending_prompts,
                   notification_channels, outbound, notification_id,
                   ui_update_rx, actor_vars, streams, asks, sinks, prompt_dialog>>

NextDbConnections ==
    \E c \in DbConnections, rule \in DbEventRules, fail \in InsertFailPoints :
        db_insert_connection([Event(clock.events + 1, c) EXCEPT !.rule = rule], fail)

SpecDbConnections == Init /\ [][NextDbConnections]_vars

-----------------------------------------------------------------------------
(* The store driven directly: Database::insert_rule and select_rules       *)

\* a rule over a list operator, with a list nested in the list
Rule3 ==
    Rule_new(<<"r3">>, "reject", "until restart",
             Operator_list(<<Operator_simple("dest.port", <<"443">>),
                             Operator_list(<<Operator_simple("user.id", <<"0">>)>>)>>))

\* the rules written to the store: every action, duration and operator type,
\* each flag set and cleared, under three names
DbRules ==
    {[Rule1 EXCEPT !.action = a] : a \in RuleAction}
    \cup {[Rule1 EXCEPT !.duration = d] : d \in RuleDuration}
    \cup {[Rule2 EXCEPT !.operator.op_type = t] : t \in OperatorType \ {"list"}}
    \cup {[Rule2 EXCEPT !.enabled = FALSE], [Rule2 EXCEPT !.precedence = TRUE],
          [Rule2 EXCEPT !.nolog = TRUE], [Rule2 EXCEPT !.operator.sensitive = TRUE],
          [Rule2 EXCEPT !.description = <<"shell">>]}
    \cup {Rule3, [Rule3 EXCEPT !.operator.list = <<>>]}

\* the nodes whose rules are stored
DbNodes == {"a", "b"}

\* the names of the rules, in the order of ORDER BY name
RuleNames == <<<<"r1">>, <<"r2">>, <<"r3">>>>

RECURSIVE select_rules_from(_, _, _)
select_rules_from(d, node, names) ==
    IF names = <<>> THEN <<>>
    ELSE LET rows == RowsOf(d.rules, <<node, Head(names)>>)
         IN [i \in 1..Len(rows) |-> row_to_rule(rows[i].key[2], rows[i].row)]
            \o select_rules_from(d, node, Tail(names))

\* Database::select_rules: SELECT ... WHERE node = ?1 ORDER BY name
select_rules(d, node) == select_rules_from(d, node, RuleNames)

\* a call of Database::insert_rule(node, &rule)
db_insert_rule(node, rule) ==
    /\ clock.events < MaxDbCalls
    /\ db' = insert_rule(db, node, rule, 0)
    /\ replies' = Some([rpc |-> "insert_rule", arg |-> <<node, rule>>,
                        reply |-> Result(0)])
    /\ clock' = [clock EXCEPT !.events = @ + 1]
    /\ UNCHANGED <<rx, nodes, active_node, connections, alerts, pending_prompts,
                   notification_channels, outbound, notification_id,
                   ui_update_rx, actor_vars, streams, asks, sinks, prompt_dialog>>

\* a call of Database::select_rules(node)
db_select_rules(node) ==
    /\ replies' = Some([rpc |-> "select_rules", arg |-> <<node>>,
                        reply |-> select_rules(db, node)])
    /\ UNCHANGED <<rx, model_vars, outbound, notification_id, ui_update_rx,
                   actor_vars, streams, asks, sinks, prompt_dialog, clock>>

NextDbRules ==
    \/ \E node \in DbNodes, rule \in DbRules : db_insert_rule(node, rule)
    \/ \E node \in DbNodes : db_select_rules(node)

SpecDbRules == Init /\ [][NextDbRules]_vars

-----------------------------------------------------------------------------
(* The daemon-schema conversions (src/grpc/types.rs) and the enum strings  *)
(* they write and parse, applied to one value at a time                    *)

\* largest second count a DateTime<Utc> holds (about 8.2e12 in the program)
MaxTimestamp == 2

\* a DateTime<Utc>: whole seconds since the epoch, nanoseconds within it
DateTime(secs, nanos) == [secs |-> secs, nanos |-> nanos]

\* DateTime::timestamp
timestamp(t) == t.secs

\* DateTime::from_timestamp(secs, nsecs)
from_timestamp(secs, nsecs) ==
    IF secs \in (0 - MaxTimestamp)..MaxTimestamp
    THEN Some(DateTime(secs, nsecs))
    ELSE None

\* a Rule with its timestamps; Rule::new leaves updated at None
Dated(rule, created) ==
    [name |-> rule.name, description |-> rule.description,
     enabled |-> rule.enabled, precedence |-> rule.precedence,
     nolog |-> rule.nolog, action |-> rule.action, duration |-> rule.duration,
     operator |-> rule.operator, created |-> created, updated |-> None]

\* Operator::default
Operator_default ==
    [op_type |-> "simple", operand |-> "", data |-> <<>>,
     sensitive |-> FALSE, list |-> <<>>]

RECURSIVE Operator_into_proto(_)
\* From<models::Operator> for proto::Operator
Operator_into_proto(o) ==
    [type |-> OperatorType_to_string(o.op_type),
     operand |-> o.operand,
     data |-> o.data,
     sensitive |-> o.sensitive,
     list |-> [i \in 1..Len(o.list) |-> Operator_into_proto(o.list[i])]]

RECURSIVE Operator_from_proto(_)
\* From<proto::Operator> for models::Operator
Operator_from_proto(o) ==
    [op_type |-> OperatorType_from(o.type),
     operand |-> o.operand,
     data |-> o.data,
     sensitive |-> o.sensitive,
     list |-> [i \in 1..Len(o.list) |-> Operator_from_proto(o.list[i])]]

\* From<models::Rule> for proto::Rule
Rule_into_proto(r) ==
    [created |-> timestamp(r.created),
     name |-> r.name,
     description |-> r.description,
     enabled |-> r.enabled,
     precedence |-> r.precedence,
     nolog |-> r.nolog,
     action |-> RuleAction_to_string(r.action),
     duration |-> RuleDuration_to_string(r.duration),
     operator |-> Some(Operator_into_proto(r.operator))]

\* From<proto::Rule> for models::Rule; now is what Utc::now() returns
Rule_from_proto(r, now) ==
    [name |-> r.name,
     description |-> r.description,
     enabled |-> r.enabled,
     precedence |-> r.precedence,
     nolog |-> r.nolog,
     action |-> RuleAction_from(r.action),
     duration |-> RuleDuration_from(r.duration),
     operator |-> IF IsSome(r.operator)
                  THEN Operator_from_proto(Unwrap(r.operator))
                  ELSE Operator_default,
     created |-> LET t == from_timestamp(r.created, 0)
                 IN IF IsSome(t) THEN Unwrap(t) ELSE now,
     updated |-> None]

\* the instants rules are created at: on a whole second and within one
CodecTimes == {DateTime(0, 0), DateTime(1, 0), DateTime(1, 500)}

\* the rules converted: those written to the store, at each instant
CodecRules == {Dated(rule, created) : rule \in DbRules, created \in CodecTimes}

\* the operators converted: those of the rules, and the nested ones
CodecOperators ==
    {rule.operator : rule \in DbRules}
    \cup {Rule3.operator.list[i] : i \in 1..Len(Rule3.operator.list)}

\* strings a daemon writes for an action: the schema's, other letter cases,
\* and strings no action is written as
ActionStrings ==
    {RuleAction_to_string(a) : a \in RuleAction}
    \cup {<<"ALLOW">>, <<"Deny">>, <<"REJECT">>}
    \cup {<<>>, <<"drop">>, <<"deny", "!">>}

\* strings a daemon writes for a duration
DurationStrings ==
    {RuleDuration_to_string(d) : d \in RuleDuration}
    \cup {<<"Always">>, <<"Until Restart">>, <<"1H">>}
    \cup {<<>>, <<"7d">>, <<"until", " ", "restart">>}

\* strings a daemon writes for an operator type
OperatorTypeStrings ==
    {OperatorType_to_string(t) : t \in OperatorType}
    \cup {<<"Regexp">>, <<"LISTS">>}
    \cup {<<>>, <<"range">>, <<"list", "s">>}

\* rules as a daemon sends them: the ones this program writes, and ones with
\* strings of its own, without an operator, or created out of range
WireRules ==
    {Rule_into_proto(r) : r \in CodecRules}
    \cup {[Rule_into_proto(Dated(Rule1, DateTime(0, 0))) EXCEPT !.action = s] :
            s \in ActionStrings}
    \cup {[Rule_into_proto(Dated(Rule1, DateTime(0, 0))) EXCEPT !.duration = s] :
            s \in DurationStrings}
    \cup {[Rule_into_proto(Dated(Rule2, DateTime(0, 0))) EXCEPT !.operator = None],
          [Rule_into_proto(Dated(Rule2, DateTime(0, 0))) EXCEPT
              !.created = MaxTimestamp + 1]}

\* operators as a daemon sends them
WireOperators ==
    {Operator_into_proto(o) : o \in CodecOperators}
    \cup {[Operator_into_proto(Rule2.operator) EXCEPT !.type = s] :
            s \in OperatorTypeStrings}

\* the i32 values of an alert's enum fields: in range and one step outside
AlertInts == (0 - 1)..7

\* alerts as a daemon sends them, one field varied at a time
WireAlerts ==
    {[AlertIn(1) EXCEPT !.type = v] : v \in AlertInts}
    \cup {[AlertIn(1) EXCEPT !.action = v] : v \in AlertInts}
    \cup {[AlertIn(1) EXCEPT !.priority = v] : v \in AlertInts}
    \cup {[AlertIn(1) EXCEPT !.what = v] : v \in AlertInts}
    \cup {[AlertIn(2) EXCEPT !.type = 7, !.action = 7, !.priority = 7, !.what = 7,
                              !.data = None]}

\* the record of a conversion called on arg that returned reply
Converted(fn, arg, reply) == Some([rpc |-> fn, arg |-> arg, reply |-> reply])

\* what a conversion leaves alone: everything but its return value
codec_vars == <<rx, model_vars, outbound, notification_id, ui_update_rx,
                actor_vars, streams, asks, sinks, prompt_dialog, clock>>

\* proto::Rule::from(rule)
encode_rule(rule) ==
    /\ replies' = Converted("proto::Rule::from", rule, Rule_into_proto(rule))
    /\ UNCHANGED codec_vars

\* models::Rule::from(rule)
decode_rule(rule, now) ==
    /\ replies' = Converted("models::Rule::from", rule, Rule_from_proto(rule, now))
    /\ UNCHANGED codec_vars

\* proto::Operator::from(operator)
encode_operator(operator) ==
    /\ replies' = Converted("proto::Operator::from", operator,
                            Operator_into_proto(operator))
    /\ UNCHANGED codec_vars

\* models::Operator::from(operator)
decode_operator(operator) ==
    /\ replies' = Converted("models::Operator::from", operator,
                            Operator_from_proto(operator))
    /\ UNCHANGED codec_vars

\* action.to_string()
display_action(action) ==
    /\ replies' = Converted("RuleAction::to_string", action,
                            RuleAction_to_string(action))
    /\ UNCHANGED codec_vars

\* RuleAction::from(s)
parse_action(s) ==
    /\ replies' = Converted("RuleAction::from", s, RuleAction_from(s))
    /\ UNCHANGED codec_vars

\* duration.to_string()
display_duration(duration) ==
    /\ replies' = Converted("RuleDuration::to_string", duration,
                            RuleDuration_to_string(duration))
    /\ UNCHANGED codec_vars

\* RuleDuration::from(s)
parse_duration(s) ==
    /\ replies' = Converted("RuleDuration::from", s, RuleDuration_from(s))
    /\ UNCHANGED codec_vars

\* op_type.to_string()
display_operator_type(op_type) ==
    /\ replies' = Converted("OperatorType::to_string", op_type,
                            OperatorType_to_string(op_type))
    /\ UNCHANGED codec_vars

\* OperatorType::from(s)
parse_operator_type(s) ==
    /\ replies' = Converted("OperatorType::from", s, OperatorType_from(s))
    /\ UNCHANGED codec_vars

\* models::Alert::from(alert)
decode_alert(alert) ==
    /\ replies' = Converted("models::Alert::from", alert, Alert_from_proto(alert))
    /\ UNCHANGED codec_vars

NextCodec ==
    \/ \E rule \in CodecRules : encode_rule(rule)
    \/ \E rule \in WireRules, now \in CodecTimes : decode_rule(rule, now)
    \/ \E operator \in CodecOperators : encode_operator(operator)
    \/ \E operator \in WireOperators : decode_operator(operator)
    \/ \E action \in RuleAction : display_action(action)
    \/ \E s \in ActionStrings : parse_action(s)
    \/ \E duration \in RuleDuration : display_duration(duration)
    \/ \E s \in DurationStrings : parse_duration(s)
    \/ \E op_type \in OperatorType : display_operator_type(op_type)
    \/ \E s \in OperatorTypeStrings : parse_operator_type(s)
    \/ \E alert \in WireAlerts : decode_alert(alert)

SpecCodec == Init /\ [][NextCodec]_vars

-----------------------------------------------------------------------------
(* Ping and PostAlert called by two daemons                                *)

\* the peers that call
RpcPeers == {"a", "b"}

\* the ids daemons number their pings with
PingIds == {0, 7}

\* the Statistics a PingRequest carries, if it carries any
PingStats ==
    {None} \cup {Some([uptime |-> clock.stats + 1,
                      events |-> Batch(clock.events, k, Curl53)]) : k \in 0..1}

\* the alerts a daemon posts next: a warning, and one of no known type
PostedAlerts ==
    {AlertIn(clock.alerts + 1), [AlertIn(clock.alerts + 1) EXCEPT !.type = 7]}

NextRpc ==
    \/ \E peer \in RpcPeers, id \in PingIds, stats \in PingStats : ping(peer, id, stats)
    \/ \E peer \in RpcPeers, alert \in PostedAlerts : post_alert(peer, alert)
    \/ Recv
    \/ ExecAddConnection
    \/ ExecAddAlert
    \/ ExecNodes
    \/ ExecDrop
    \/ NotifyUi

SpecRpc == Init /\ [][NextRpc]_vars

-----------------------------------------------------------------------------
(* The command channel and its producers: RPC handlers, a Notifications    *)
(* reader, the rules tab, and the connection details dialog                *)

\* the items of the details dialog that make a rule (ActionItem but Close)
ActionItems == {"BlockProcess", "BlockDestination", "BlockPort", "AllowProcess"}

\* ConnectionDetailsDialog::create_rule
ConnectionDetailsDialog_create_rule(conn, action) ==
    CASE action = "BlockProcess" ->
           Rule_new(<<"block-">> \o process_name(conn), "deny", "always",
                    Operator_simple("process.path", conn.process_path))
      [] action = "BlockDestination" ->
           LET dest == IF conn.dst_host # <<>> THEN conn.dst_host ELSE conn.dst_ip
           IN Rule_new(<<"block-">> \o dest, "deny", "always",
                       Operator_simple("dest.host", dest))
      [] action = "BlockPort" ->
           Rule_new(<<"block-port-", conn.dst_port>>, "deny", "always",
                    Operator_simple("dest.port", <<conn.dst_port>>))
      [] action = "AllowProcess" ->
           Rule_new(<<"allow-">> \o process_name(conn), "allow", "always",
                    Operator_simple("process.path", conn.process_path))

\* ConnectionDetailsDialog::handle_key, Enter on an item with a node address
\* cached: state_tx.try_send, whose Err(Full) is dropped
details_try_send(addr, conn, action) ==
    /\ clock.commands < MaxCommands
    /\ rx' = IF Len(rx) < ChannelCapacity
             THEN Append(rx, MsgRuleAdded(addr,
                                          ConnectionDetailsDialog_create_rule(conn, action)))
             ELSE rx
    /\ clock' = Tick("events", 0)
    /\ UNCHANGED <<rpc_vars, streams, asks, sinks, prompt_dialog, replies>>

NextChannel ==
    \/ \E config \in Configs : clock.commands = 0 /\ subscribe("a", config)
    \/ ask_rule("a", Curl53)
    \/ submit(MsgRuleToggled("a", Rule1.name, FALSE))
    \/ streams = <<>> /\ notifications("a")
    \/ \E s \in DOMAIN streams : reader_reply(s, 1)
    \/ \E action \in ActionItems : details_try_send("a", Curl443, action)
    \/ Recv
    \/ ExecNodes
    \/ ExecAddConnection
    \/ ExecChannels
    \/ ExecDrop
    \/ NotifyUi

SpecChannel == Init /\ [][NextChannel]_vars

-----------------------------------------------------------------------------
(* The rule of a prompt dialog, for each selection of its matchers         *)

\* the connections prompted for: with and without a host name, with an md5
\* checksum of the executable, and without a destination address
DialogConnections ==
    {Curl443, Curl53,
     [Curl443 EXCEPT !.process_checksums = [md5 |-> <<"d41d8c">>]],
     [Curl53 EXCEPT !.dst_ip = <<>>]}

\* the dialogs the Space key of the advanced options and the Left and Right
\* keys of the action lead to
Dialogs ==
    {[PromptDialog_new(connection, "a", 1) EXCEPT
        !.action = action,
        !.match_dest_host = host, !.match_dest_ip = ip, !.match_dest_port = port,
        !.match_user = user, !.match_checksum = checksum] :
       connection \in DialogConnections, action \in {"allow", "deny"},
       host \in BOOLEAN, ip \in BOOLEAN, port \in BOOLEAN, user \in BOOLEAN,
       checksum \in BOOLEAN}

\* self.create_rule() of the dialog
dialog_create_rule(dialog) ==
    /\ replies' = Converted("PromptDialog::create_rule", dialog, create_rule(dialog))
    /\ UNCHANGED codec_vars

NextDialog == \E dialog \in Dialogs : dialog_create_rule(dialog)

SpecDialog == Init /\ [][NextDialog]_vars

-----------------------------------------------------------------------------
(* A daemon that subscribes and opens Notifications streams again, on the  *)
(* same peer address, while an older stream of it ends                     *)

NextReconnect ==
    \/ \E config \in Configs : Budget /\ subscribe("a", config)
    \/ notifications("a")
    \/ \E s \in DOMAIN streams : reader_close(s)
    \/ Recv
    \/ ExecNodes
    \/ ExecChannels
    \/ ExecDrop
    \/ NotifyUi

SpecReconnect == Init /\ [][NextReconnect]_vars

-----------------------------------------------------------------------------
(* Daemons that subscribe again, with the same or another ClientConfig     *)

\* the ClientConfig of a daemon before and after it was upgraded and given a
\* rule and a system firewall
NodeConfigs ==
    Configs \cup
    { [config EXCEPT !.name = "host2", !.version = "1.7", !.rules = <<Rule2>>,
                     !.system_firewall = Some([enabled |-> TRUE, version |-> 1])] :
        config \in Configs }

NextResubscribe ==
    \/ \E peer \in {"a", "b"}, config \in NodeConfigs : subscribe(peer, config)
    \/ \E peer \in {"a", "b"} : streams = <<>> /\ notifications(peer)
    \/ \E s \in DOMAIN streams : reader_close(s)
    \/ Recv
    \/ ExecNodes
    \/ ExecChannels
    \/ ExecDrop
    \/ NotifyUi

SpecResubscribe == Init /\ [][NextResubscribe]_vars

-----------------------------------------------------------------------------
(* Prompts: interactive AskRule calls, the UI's dialog, and streams that   *)
(* end while prompts are outstanding                                       *)

\* the peers whose daemons ask
Askers == {"a", "b"}

NextPrompt ==
    \/ \E peer \in Askers : ask_rule_interactive(peer, Curl443)
    \/ \E p \in DOMAIN asks : ask_verdict(p)
    \/ \E p \in DOMAIN asks : ask_closed(p)
    \/ \E p \in DOMAIN asks : ask_deadline(p)
    \/ \E peer \in Askers : streams = <<>> /\ notifications(peer)
    \/ \E s \in DOMAIN streams : reader_close(s)
    \/ ui_try_recv
    \/ \E key \in Keys : ui_key(key)
    \/ Recv
    \/ ExecPrompts
    \/ ExecNodes
    \/ ExecChannels
    \/ ExecDrop
    \/ NotifyUi

SpecPrompt == Init /\ [][NextPrompt]_vars

\* the prompts of two peers while a daemon subscribes: its NodeChanged
\* signals share the signal channel with the PromptReceived signals
NextPromptLag ==
    \/ NextPrompt
    \/ \E config \in Configs : Budget /\ subscribe("a", config)

SpecPromptLag == Init /\ [][NextPromptLag]_vars

-----------------------------------------------------------------------------
(* Notifications streams of one peer address, and the notifications sent   *)
(* down them                                                               *)

\* the action of the n-th SendNotification: two variants in turn
ActionAt(n) ==
    IF n % 2 = 0 THEN [tag |-> "EnableInterception", data |-> <<>>]
    ELSE [tag |-> "SetLogLevel", data |-> <<"2">>]

\* the peers that open Notifications streams
StreamPeers == {"a", "b"}

NextStream ==
    \/ \E peer \in StreamPeers : notifications(peer)
    \/ \E s \in DOMAIN streams : reader_close(s)
    \/ Budget /\ submit(MsgSendNotification("a", ActionAt(clock.commands)))
    \/ \E s \in DOMAIN outbound : outbound_recv(s)
    \/ \E s \in DOMAIN outbound : outbound_drop(s)
    \/ Recv
    \/ ExecNodes
    \/ ExecChannels
    \/ ExecChannelsGet
    \/ ExecTxSend
    \/ ExecDrop
    \/ NotifyUi

SpecStream == Init /\ [][NextStream]_vars

-----------------------------------------------------------------------------
(* Monitor-mode AskRule as a handler of two steps, next to an actor that   *)
(* sends notifications down streams the daemon may not drain               *)

\* an AskRule handler has been entered and has not returned
AskPending == replies # None /\ "state" \in DOMAIN Unwrap(replies)

\* UiService::ask_rule up to its send: the request is decoded
ask_rule_begin(peer, connection) ==
    /\ ~AskPending
    /\ clock.events < MaxAsks
    /\ replies' = Some([rpc |-> "AskRule", peer |-> peer, connection |-> connection,
                        state |-> "sending"])
    /\ UNCHANGED <<rx, rpc_vars, streams, asks, sinks, prompt_dialog, clock>>

\* UiService::ask_rule from state_tx.send(..).await, which waits for room on
\* the command channel, to the reply
ask_rule_end ==
    /\ AskPending
    /\ HasRoom
    /\ LET call == Unwrap(replies)
       IN /\ rx' = Append(rx, MsgNewConnection(call.peer, call.connection,
                                               clock.events + 1))
          /\ replies' = Some([rpc |-> "AskRule", connection |-> call.connection,
                              reply |-> create_default_rule(call.connection)])
    /\ clock' = [clock EXCEPT !.events = @ + 1]
    /\ UNCHANGED <<rpc_vars, streams, asks, sinks, prompt_dialog>>

\* one statement of the state actor
ActorStep ==
    \/ Recv
    \/ ExecNodes
    \/ ExecAddConnection
    \/ ExecAddAlert
    \/ ExecChannels
    \/ ExecPrompts
    \/ ExecDb
    \/ ExecChannelsGet
    \/ ExecTxSend
    \/ ExecDrop
    \/ NotifyUi

NextAsk ==
    \/ \E connection \in Connections : ask_rule_begin("a", connection)
    \/ ask_rule_end
    \/ streams = <<>> /\ notifications("a")
    \/ \E s \in DOMAIN streams : reader_close(s)
    \/ \E action \in Actions : submit(MsgSendNotification("a", action))
    \/ \E s \in DOMAIN outbound : outbound_recv(s)
    \/ Recv
    \/ ExecNodes
    \/ ExecAddConnection
    \/ ExecChannels
    \/ ExecChannelsGet
    \/ ExecTxSend
    \/ ExecDrop
    \/ NotifyUi

\* the tasks of the mediator are scheduled fairly; the daemon is not obliged
\* to read its notification stream
SpecAsk ==
    /\ Init
    /\ [][NextAsk]_vars
    /\ WF_vars(ActorStep)
    /\ WF_vars(ask_rule_end)

-----------------------------------------------------------------------------
(* Properties                                                              *)

Min(a, b) == IF a < b THEN a ELSE b

\* every command sent has been received and its arm has run to its end
Quiescent == rx = <<>> /\ ops = <<>>

\* C1: in every reachable state the connection ring holds at most
\* max_connections entries and the alert ring at most max_alerts entries.
C1_RingsBounded ==
    /\ Len(connections) <= max_connections
    /\ Len(alerts) <= max_alerts

\* both rings are full and both have evicted an entry
C1_Witness ==
    /\ Len(connections) = max_connections
    /\ connections[1].seq > max_connections
    /\ Len(alerts) = max_alerts
    /\ alerts[1].id > max_alerts

\* C2: once n events have been submitted and processed, the ring holds the
\* min(n, max_connections) most recently submitted ones, newest first: the
\* entry at position i is the (n - i + 1)-th event submitted.
C2_NewestRetained ==
    Quiescent =>
        /\ Len(connections) = Min(clock.events, max_connections)
        /\ \A i \in 1..Len(connections) : connections[i].seq = clock.events - i + 1

\* a ConnectionEvent was the last of max_connections + 1 events
C2_Witness ==
    /\ Quiescent
    /\ clock.events = max_connections + 1
    /\ cur # None
    /\ Unwrap(cur).type = "ConnectionEvent"
    /\ Len(connections) = max_connections

\* the nodes whose status is Connected
ConnectedNodes == {a \in DOMAIN nodes : nodes[a].status = "Connected"}

\* the nodes write of the current arm has been made
NodesWritten(type) ==
    /\ cur # None
    /\ Unwrap(cur).type = type
    /\ \A i \in 1..Len(ops) : ops[i].op # "nodes"

\* C9: after any sequence of NodeConnected and NodeDisconnected commands,
\* active_node is either unset or a key of the node mapping.
C9_ActiveInNodes == active_node = None \/ Unwrap(active_node) \in DOMAIN nodes

\* the active node was disconnected and the cursor moved to another node
C9_Witness ==
    /\ NodesWritten("NodeDisconnected")
    /\ pre_active = Some(Unwrap(cur).addr)
    /\ active_node # None
    /\ active_node # pre_active

\* C10: processing NodeDisconnected{A} with A active leaves active_node at a
\* node whose status is Connected when there is one and unset otherwise; with
\* A not active it leaves active_node as it was.
C10_Retarget ==
    NodesWritten("NodeDisconnected") =>
        IF pre_active = Some(Unwrap(cur).addr)
        THEN IF ConnectedNodes # {}
             THEN active_node # None /\ Unwrap(active_node) \in ConnectedNodes
             ELSE active_node = None
        ELSE active_node = pre_active

\* the active node was disconnected while two other nodes were connected
C10_Witness ==
    /\ NodesWritten("NodeDisconnected")
    /\ pre_active = Some(Unwrap(cur).addr)
    /\ Cardinality(ConnectedNodes) = 2
    /\ active_node # None
    /\ Unwrap(active_node) \in ConnectedNodes


\* the arm of the current command has run to its end
Completed == cur # None /\ ops = <<>>

\* the signals the arm of each variant sends (src/app/state.rs:213-370)
Signals(msg) ==
    CASE msg.type \in {"NodeConnected", "NodeDisconnected"} -> <<"NodeChanged">>
      [] msg.type = "StatsUpdate" ->
           IF msg.stats.events = <<>> THEN <<"StatsUpdated">>
           ELSE <<"StatsUpdated", "ConnectionsUpdated">>
      [] msg.type \in {"ConnectionEvent", "NewConnection"} -> <<"ConnectionsUpdated">>
      [] msg.type = "ConnectionPrompt" -> <<"PromptReceived">>
      [] msg.type \in {"RuleAdded", "RuleModified", "RuleDeleted", "RuleToggled"} ->
           <<"RulesUpdated">>
      [] msg.type = "FirewallConfigUpdate" -> <<"FirewallUpdated">>
      [] msg.type = "AlertReceived" -> <<"AlertsUpdated">>
      [] msg.type \in {"NotificationChannelOpened", "NotificationReply",
                       "SendNotification", "PromptResponse"} -> <<>>

\* C3 as stated: for every command the actor dequeues, of every variant,
\* exactly one change signal is emitted during its processing.
C3_ExactlyOneSignal == Completed => Len(emitted) = 1

\* C3, amended: a processed command has emitted exactly the signals of its
\* variant: none for NotificationChannelOpened, NotificationReply,
\* SendNotification and PromptResponse; StatsUpdated and then, when the batch
\* holds events, ConnectionsUpdated for StatsUpdate; one signal for the rest.
C3_SignalsOfVariant ==
    /\ Completed => emitted = Signals(Unwrap(cur))
    /\ \A i \in 1..Len(emitted) : emitted[i] \in UiUpdateSignal

\* a StatsUpdate carrying an event has been processed: two signals
C3_Witness ==
    /\ Completed
    /\ Unwrap(cur).type = "StatsUpdate"
    /\ Unwrap(cur).stats.events # <<>>
    /\ Len(emitted) = 2

\* C4: once a command's signal is sent, the command has no statement left
\* but signals and the actor holds no lock: the mutation is complete and its
\* guard released before the first signal.
C4_SignalAfterMutation ==
    emitted # <<>> =>
        /\ held = {}
        /\ \A i \in 1..Len(ops) : ops[i].op = "notify"

\* RulesUpdated was sent for a RuleAdded whose rule is in the node's list
C4_Witness ==
    /\ Completed
    /\ Unwrap(cur).type = "RuleAdded"
    /\ emitted = <<"RulesUpdated">>
    /\ "a" \in DOMAIN nodes
    /\ Len(nodes["a"].rules) = 1


\* the places that hold the Sender of sink p: a command on the channel, the
\* command in the match, the prompt queue, the dialog
Holders(p) ==
    Cardinality({i \in 1..Len(rx) : rx[i].type = "ConnectionPrompt"
                                    /\ rx[i].response_tx = p})
    + Cardinality({i \in 1..Len(ops) : ops[i].op = "prompts"
                                       /\ ops[i].arg.response_tx = p})
    + Cardinality({i \in 1..Len(pending_prompts) : pending_prompts[i].response_tx = p})
    + (IF prompt_dialog # None /\ Unwrap(prompt_dialog).response_tx = Some(p)
       THEN 1 ELSE 0)

\* C5 as stated: every sink is resolved exactly once; at most one verdict is
\* sent into it and no prompt whose AskRule has returned is left with its
\* sink neither fulfilled nor dropped.
C5_ResolvedExactlyOnce ==
    \A p \in DOMAIN asks :
        /\ sinks[p].sent <= 1
        /\ asks[p].state = "returned" => sinks[p].tx \in {"sent", "dropped"}

\* C5, amended: at most one verdict is ever sent into a sink, because its
\* Sender is held in exactly one place until it is used or dropped; a handler
\* that has returned has one reply, the verdict when it returned on one.  A
\* sink abandoned by its handler may stay unfulfilled and undropped.
C5_AtMostOneVerdict ==
    \A p \in DOMAIN asks :
        /\ sinks[p].sent <= 1
        /\ Holders(p) = (IF sinks[p].tx = "open" THEN 1 ELSE 0)
        /\ sinks[p].value # None => sinks[p].tx = "sent"
        /\ asks[p].state = "returned" =>
             /\ asks[p].reply # None
             /\ asks[p].by = "verdict" => asks[p].reply = sinks[p].value

\* the user denied a prompt and its handler returned that verdict
C5_Witness ==
    \E p \in DOMAIN asks :
        /\ sinks[p].sent = 1
        /\ asks[p].by = "verdict"
        /\ Unwrap(asks[p].reply).action = "deny"
        /\ prompt_dialog = None

\* the default rule of the specification, written out for each connection
DefaultRuleOf(c) ==
    [name |-> IF c = Curl443 THEN <<"curl", "-", "443">> ELSE <<"curl", "-", "53">>,
     description |-> <<>>, enabled |-> TRUE, precedence |-> FALSE, nolog |-> FALSE,
     action |-> "allow", duration |-> "once",
     operator |-> [op_type |-> "simple", operand |-> "process.path",
                   data |-> c.process_path, sensitive |-> FALSE, list |-> <<>>]]

\* a handler that returned with no verdict in its channel gave the default rule
DefaultOnDeadline ==
    \A p \in DOMAIN asks :
        asks[p].state = "returned" /\ asks[p].by # "verdict" =>
            asks[p].reply = Some(DefaultRuleOf(asks[p].connection))

\* C6: a handler whose prompt the user has not resolved when the deadline
\* comes (at once when prompt_timeout is 0) returns the default rule: allow,
\* once, simple process.path = the connection's process path, named
\* "<process>-<dst_port>"; and no later step, a verdict of the user included,
\* changes a reply already returned.
C6_DefaultOnDeadline ==
    /\ []DefaultOnDeadline
    /\ [][\A p \in DOMAIN asks :
            asks[p].state = "returned" => asks'[p] = asks[p]]_vars

\* the handler returned on its deadline and the user denied the prompt later
C6_Witness ==
    \E p \in DOMAIN asks :
        /\ asks[p].by = "deadline"
        /\ asks[p].reply = Some(DefaultRuleOf(Curl443))
        /\ sinks[p].sent = 1
        /\ sinks[p].value = None

\* C7 as stated: when NodeDisconnected{P} has been processed, pending_prompts
\* holds no prompt of P (each was removed and its sink dropped).
C7_PromptsOfPeerDropped ==
    Completed /\ Unwrap(cur).type = "NodeDisconnected" =>
        \A i \in 1..Len(pending_prompts) :
            pending_prompts[i].node_addr # Unwrap(cur).addr


\* msg is one of the two commands stream s sends
OfStream(msg, s) ==
    \/ msg.type = "NotificationChannelOpened" /\ msg.tx = s
    \/ msg.type = "NodeDisconnected" /\ msg.stream = s

\* stream s has ended and the actor has run both of its commands to the end
Reaped(s) ==
    /\ streams[s].state = "closed"
    /\ \A i \in 1..Len(rx) : ~OfStream(rx[i], s)
    /\ ~(cur # None /\ OfStream(Unwrap(cur), s) /\ ops # <<>>)

\* the command channel holds NotificationChannelOpened of a stream before
\* its NodeDisconnected, and the queue is in the map once the former is run
OpenedThenRegistered ==
    /\ \A i, j \in 1..Len(rx) :
         /\ rx[i].type = "NotificationChannelOpened"
         /\ rx[j].type = "NodeDisconnected"
         /\ rx[j].stream = rx[i].tx
         => i < j
    /\ \A s \in DOMAIN streams :
         cur # None /\ Unwrap(cur).type = "NodeDisconnected" /\ Unwrap(cur).stream = s
         => \A i \in 1..Len(rx) : ~OfStream(rx[i], s)
    /\ Completed /\ Unwrap(cur).type = "NotificationChannelOpened" =>
         /\ Unwrap(cur).node_addr \in DOMAIN notification_channels
         /\ notification_channels[Unwrap(cur).node_addr] = Unwrap(cur).tx

\* C8 as stated: NotificationChannelOpened comes before the stream's
\* NodeDisconnected, the queue is in the map once the former is processed,
\* and once the stream has ended and its commands are processed the map holds
\* no entry for its peer.
C8_NoEntryForPeer ==
    /\ OpenedThenRegistered
    /\ \A s \in DOMAIN streams :
         Reaped(s) => streams[s].peer \notin DOMAIN notification_channels

\* C8, amended: as stated, except that once the stream has ended and its
\* commands are processed the map holds no entry that is this stream's queue;
\* an entry for the peer can be there as the queue of another stream of the
\* same peer address.
C8_NoOrphanQueue ==
    /\ OpenedThenRegistered
    /\ \A s \in DOMAIN streams :
         Reaped(s) => \A a \in DOMAIN notification_channels :
                          notification_channels[a] # s

\* a stream was registered and reaped while a later stream of the same peer
\* address stays registered
C8_Witness ==
    \E s, t \in DOMAIN streams :
        /\ Reaped(s)
        /\ streams[t].state = "open"
        /\ streams[t].peer = streams[s].peer
        /\ streams[s].peer \in DOMAIN notification_channels
        /\ notification_channels[streams[s].peer] = t

\* C11: no step takes an address out of the node mapping, and the nodes write
\* of NodeDisconnected{A} changes nothing but the status of A, which becomes
\* Disconnected: name, rules, firewall and statistics stay.
C11_NodeRetained ==
    [][/\ DOMAIN nodes \subseteq DOMAIN nodes'
       /\ (Running("nodes") /\ Head(ops).arg.type = "NodeDisconnected"
           /\ ops' = Tail(ops))
          => \A a \in DOMAIN nodes :
               nodes'[a] = IF a = Head(ops).arg.addr
                           THEN [nodes[a] EXCEPT !.status = "Disconnected"]
                           ELSE nodes[a]]_vars

\* a node with a rule or with statistics has been disconnected and kept
C11_Witness ==
    /\ NodesWritten("NodeDisconnected")
    /\ "a" \in DOMAIN nodes
    /\ nodes["a"].status = "Disconnected"
    /\ nodes["a"].name = "host1"
    /\ nodes["a"].rules # <<>> \/ nodes["a"].statistics # None

\* the sequence numbers of the events a command carries, in the order its arm
\* adds them
EventSeqs(msg) ==
    CASE msg.type = "ConnectionEvent" -> <<msg.event.seq>>
      [] msg.type = "NewConnection" -> <<msg.seq>>
      [] msg.type = "StatsUpdate" ->
           [i \in 1..Len(msg.stats.events) |-> msg.stats.events[i].seq]
      [] OTHER -> <<>>

RECURSIVE QueuedSeqs(_)
\* the sequence numbers of the events of the queued commands q, head first
QueuedSeqs(q) == IF q = <<>> THEN <<>> ELSE EventSeqs(Head(q)) \o QueuedSeqs(Tail(q))

RECURSIVE ArmSeqs(_)
\* the sequence numbers of the events the statements o have still to add
ArmSeqs(o) ==
    IF o = <<>> THEN <<>>
    ELSE (IF Head(o).op = "add_connection" THEN <<Head(o).arg.seq>> ELSE <<>>)
         \o ArmSeqs(Tail(o))

\* the events still to be added follow, in the order they were sent, the
\* newest event of the ring
InSendOrder ==
    LET todo == ArmSeqs(ops) \o QueuedSeqs(rx)
    IN /\ \A i \in 1..(Len(todo) - 1) : todo[i + 1] = todo[i] + 1
       /\ todo # <<>> =>
            /\ todo[Len(todo)] = clock.events
            /\ connections # <<>> => connections[1].seq + 1 = todo[1]
       /\ todo = <<>> /\ connections # <<>> => connections[1].seq = clock.events

\* C12: the actor takes the command at the head of the channel, only when the
\* arm of the one before has run to its end; senders add at the tail; so the
\* events of the commands are added in the order the commands were sent, those
\* of one handler among them.
C12_SendOrder ==
    /\ []InSendOrder
    /\ [][\/ rx' = rx /\ cur' = cur
          \/ /\ Len(rx') = Len(rx) + 1
             /\ SubSeq(rx', 1, Len(rx)) = rx
             /\ cur' = cur
          \/ /\ rx # <<>>
             /\ ops = <<>>
             /\ cur' = Some(Head(rx))
             /\ rx' = Tail(rx)]_vars

\* a command is in its arm while another waits, after events were added
C12_Witness ==
    /\ cur # None
    /\ ops # <<>>
    /\ Len(rx) = ChannelCapacity
    /\ rx[1].type # rx[2].type
    /\ connections # <<>>

\* C13: every monitor-mode AskRule puts exactly one NewConnection{peer,
\* connection} at the tail of the command channel, and replies with the rule
\* allow, once, simple process.path = the connection's process path, named
\* "<basename>-<dst_port>", whatever the actor is doing.
C13_MonitorReply ==
    [][AskPending /\ ~AskPending' =>
         /\ Len(rx') = Len(rx) + 1
         /\ SubSeq(rx', 1, Len(rx)) = rx
         /\ rx'[Len(rx')].type = "NewConnection"
         /\ rx'[Len(rx')].node_addr = Unwrap(replies).peer
         /\ rx'[Len(rx')].connection = Unwrap(replies).connection
         /\ Unwrap(replies').rpc = "AskRule"
         /\ Unwrap(replies').reply = DefaultRuleOf(Unwrap(replies).connection)]_vars

\* AskRule for /usr/bin/curl has returned curl-443 while the actor was in
\* the arm of another command
C13_Witness ==
    /\ replies # None
    /\ ~AskPending
    /\ Unwrap(replies).connection = Curl443
    /\ Unwrap(replies).reply.name = <<"curl", "-", "443">>
    /\ rx # <<>>
    /\ rx[Len(rx)].type = "NewConnection"
    /\ ops # <<>>

\* C14 as stated: every AskRule call eventually returns, the tasks of the
\* mediator being scheduled fairly, whatever the daemons and the user do.
C14_AskRuleReturns == AskPending ~> ~AskPending

\* C14 and C15 rest on this: the actor stands at tx.send with a live receiver
\* and a full queue, where it can only wait for the daemon
BlockedOnSend ==
    /\ Running("tx_send")
    /\ outbound[Head(ops).arg.tx].rx_alive
    /\ Len(outbound[Head(ops).arg.tx].queue) >= OutboundCapacity

\* C15 as stated: no outbound queue holds more than its capacity, and
\* SendNotification to a full queue does not block the actor: it is never
\* left waiting at the send for the daemon to drain the stream.
C15_NeverBlocked ==
    /\ \A s \in DOMAIN outbound : Len(outbound[s].queue) <= OutboundCapacity
    /\ ~BlockedOnSend

\* the arm of SendNotification{P} runs a statement with no queue registered for P
DroppedStep ==
    /\ cur # None
    /\ Unwrap(cur).type = "SendNotification"
    /\ Unwrap(cur).node_addr \notin DOMAIN notification_channels
    /\ Len(ops') < Len(ops)

\* C16: SendNotification{P, action} with no outbound queue registered for P is
\* dropped: its arm puts nothing on any stream, makes no queue, takes no id,
\* sends no signal, never reaches the send, and leaves nodes, rings, pending
\* prompts, the channel map and the store as they were.
C16_DroppedWithoutQueue ==
    [][DroppedStep =>
         /\ UNCHANGED <<nodes, active_node, connections, alerts, pending_prompts,
                        notification_channels, db, outbound, notification_id,
                        ui_update_rx>>
         /\ \A i \in 1..Len(ops') : ops'[i].op # "tx_send"]_vars

\* SendNotification for a connected node with no stream has been processed
C16_Witness ==
    /\ Completed
    /\ Unwrap(cur).type = "SendNotification"
    /\ Unwrap(cur).node_addr \notin DOMAIN notification_channels
    /\ Unwrap(cur).node_addr \in DOMAIN nodes
    /\ notification_id = 1
    /\ emitted = <<>>

\* the ordinals the claim gives to the variants of NotificationAction
ClaimOrdinal(tag) ==
    CASE tag = "EnableInterception" -> 0 [] tag = "DisableInterception" -> 1
      [] tag = "EnableFirewall" -> 2 [] tag = "DisableFirewall" -> 3
      [] tag = "ReloadFwRules" -> 4 [] tag = "ChangeConfig" -> 5
      [] tag = "EnableRule" -> 6 [] tag = "DisableRule" -> 7
      [] tag = "DeleteRule" -> 8 [] tag = "ChangeRule" -> 9
      [] tag = "SetLogLevel" -> 10 [] tag = "Stop" -> 11
      [] tag = "TaskStart" -> 12 [] tag = "TaskStop" -> 13

\* the send of the current SendNotification ends in this step
SendStep == Running("tx_send") /\ ops' = Tail(ops)

\* the queue of stream s gains the notification n at its tail, the others
\* stay as they are
PutOn(s, n) ==
    /\ outbound'[s].queue = Append(outbound[s].queue, n)
    /\ \A t \in DOMAIN outbound \ {s} : outbound'[t] = outbound[t]

\* the notification the arm is about to send goes to the queue registered for
\* the command's node and carries its action's ordinal, the node as client
\* name, the server's name, and the id taken last
WellFormedSend ==
    Running("tx_send") =>
        LET n == Head(ops).arg.notification
            msg == Unwrap(cur)
        IN /\ msg.type = "SendNotification"
           /\ msg.node_addr \in DOMAIN notification_channels
           /\ Head(ops).arg.tx = notification_channels[msg.node_addr]
           /\ streams[Head(ops).arg.tx].peer = msg.node_addr
           /\ n.type = ClaimOrdinal(msg.action.tag)
           /\ n.client_name = msg.node_addr
           /\ n.server_name = "opensnitch-tui"
           /\ n.id = notification_id - 1

\* the ids on every queue are below the next id and grow towards the tail
IdsGrow ==
    \A s \in DOMAIN outbound :
        LET q == outbound[s].queue
        IN /\ \A i \in 1..Len(q) : q[i].id < notification_id
           /\ \A i \in 1..(Len(q) - 1) : q[i].id < q[i + 1].id

\* C17 as stated: with a queue registered for P, the send of
\* SendNotification{P, action} puts one well-formed Notification on P's
\* outbound stream and on no other; ids grow in send order.
C17_OnePut ==
    /\ []WellFormedSend
    /\ []IdsGrow
    /\ [][notification_id' >= notification_id]_vars
    /\ [][SendStep => PutOn(Head(ops).arg.tx, Head(ops).arg.notification)]_vars

\* C17, amended: as stated when the receiving end of P's queue is alive; when
\* the transport has dropped it while the entry is still registered the send
\* fails and nothing is put on any stream, the id being consumed all the same.
C17_OnePutWhenAlive ==
    /\ []WellFormedSend
    /\ []IdsGrow
    /\ [][notification_id' >= notification_id]_vars
    /\ [][SendStep =>
            IF outbound[Head(ops).arg.tx].rx_alive
            THEN PutOn(Head(ops).arg.tx, Head(ops).arg.notification)
            ELSE outbound' = outbound]_vars

\* SetLogLevel has reached the stream of "a" with ordinal 10 behind an earlier
\* notification, while "b" has a stream of its own that stays empty
C17_Witness ==
    \E s, t \in DOMAIN streams :
        /\ streams[s].peer = "a"
        /\ streams[t].peer = "b"
        /\ outbound[t].queue = <<>>
        /\ outbound[s].queue # <<>>
        /\ outbound[s].queue[Len(outbound[s].queue)].type = 10
        /\ outbound[s].queue[Len(outbound[s].queue)].id = 2
        /\ "b" \in DOMAIN notification_channels


-----------------------------------------------------------------------------
(* Writers of the in-memory model                                          *)

\* a step of run_state_manager that runs a statement of the current arm
ActorStatement == ops # <<>> /\ Len(ops') < Len(ops)

\* C18: the state-actor task is the only writer of the in-memory model:
\* every step that changes the node set, active_node, the connection ring,
\* the alert ring, pending_prompts, the notification-channel map or the
\* durable store is a statement of the actor's current arm; no RPC handler,
\* stream reader or UI turn changes any of them.
C18_ActorOnlyWriter ==
    [][model_vars' # model_vars => ActorStatement]_vars


-----------------------------------------------------------------------------
(* Store failures                                                          *)

\* the store call of this step returned Err (at its first statement)
FailedWrite ==
    /\ ops # <<>>
    /\ ops' # ops
    /\ \/ /\ Head(ops).op = "add_connection"
          /\ db' = insert_connection(db, Head(ops).arg, 1)
       \/ /\ Head(ops).op = "add_alert"
          /\ db' = insert_alert(db, Head(ops).arg, 1)
       \/ /\ Head(ops).op = "db"
          /\ db' = RuleDbWrite(Head(ops).arg, db, 1)

\* the write of a rule arm is in the node's rule list (when the node is known)
RuleApplied(msg, ns) ==
    msg.node_addr \in DOMAIN ns =>
        LET rules == ns[msg.node_addr].rules
        IN CASE msg.type = "RuleAdded" ->
                  rules # <<>> /\ rules[Len(rules)] = msg.rule
             [] msg.type = "RuleModified" ->
                  FirstNamed(rules, msg.rule.name) # 0 =>
                      rules[FirstNamed(rules, msg.rule.name)] = msg.rule
             [] msg.type = "RuleDeleted" -> FirstNamed(rules, msg.name) = 0

\* the signals of the statements os, in order
NotifiesOf(os) ==
    LET IsNotify(s) == s.op = "notify"
        sel == SelectSeq(os, IsNotify)
    IN [i \in 1..Len(sel) |-> sel[i].arg]

\* the signals the command in the match has sent or has still to send
SignalsDue == emitted \o NotifiesOf(ops)

\* C19: when a store write fails while ConnectionEvent, NewConnection,
\* StatsUpdate, AlertReceived, RuleAdded, RuleModified or RuleDeleted is
\* processed, the in-memory mutation of the command is applied all the same
\* (the event or alert is the ring's newest entry, the rule change is in the
\* node's list), the arm goes on to its next statement with all its change
\* signals still to be sent, every arm that ends has sent them, and the actor
\* takes the next command whenever one is queued.
C19_FailureNotPropagated ==
    /\ [][FailedWrite =>
            /\ ops' = Tail(ops)
            /\ cur' = cur
            /\ Head(ops).op = "add_connection" =>
                 /\ connections' = add_connection(connections, Head(ops).arg)
                 /\ Head(connections') = Head(ops).arg
            /\ Head(ops).op = "add_alert" =>
                 /\ alerts' = add_alert(alerts, Head(ops).arg)
                 /\ Head(alerts') = Head(ops).arg
            /\ Head(ops).op = "db" =>
                 /\ nodes' = nodes
                 /\ RuleApplied(Head(ops).arg, nodes')
            /\ emitted' \o NotifiesOf(ops') = Signals(Unwrap(cur))]_vars
    /\ [](Completed /\ Unwrap(cur).type \in
              {"ConnectionEvent", "NewConnection", "StatsUpdate", "AlertReceived",
               "RuleAdded", "RuleModified", "RuleDeleted"}
            => emitted = Signals(Unwrap(cur)))
    /\ [](ops = <<>> /\ rx # <<>> => ENABLED Recv)

\* the write of a connection failed (the ring holds an event, the store no
\* row), and the actor has gone on to process an alert whose write failed too
C19_Witness ==
    /\ Completed
    /\ Unwrap(cur).type = "AlertReceived"
    /\ connections # <<>>
    /\ db.connections = <<>>
    /\ alerts # <<>>
    /\ db.alerts = <<>>
    /\ emitted = <<"AlertsUpdated">>


-----------------------------------------------------------------------------
(* StatsUpdate                                                             *)

\* the command in the match is a StatsUpdate
InStatsUpdate == cur # None /\ Unwrap(cur).type = "StatsUpdate"

\* the events of the batch whose add_connection call is still to be made
EventsLeft ==
    LET IsAdd(s) == s.op = "add_connection"
        sel == SelectSeq(ops, IsAdd)
    IN [i \in 1..Len(sel) |-> sel[i].arg]

\* the number of events of the batch already appended
EventsDone == Len(Unwrap(cur).stats.events) - Len(EventsLeft)

\* the events appended so far lead the ring, the last appended newest, and
\* the calls still to be made are those of the rest of the batch, in its order
BatchOrder ==
    InStatsUpdate =>
        LET events == Unwrap(cur).stats.events
        IN /\ EventsDone \in 0..Len(events)
           /\ EventsLeft = SubSeq(events, EventsDone + 1, Len(events))
           /\ Len(connections) >= Min(EventsDone, max_connections)
           /\ \A i \in 1..Min(EventsDone, max_connections) :
                connections[i] = events[EventsDone - i + 1]

\* within the arm the ring and the store change only in an add_connection
\* call, which pushes the next event of the batch and makes one store call
OneAttemptPerEvent ==
    InStatsUpdate /\ ops # <<>> /\ ops' # ops =>
        IF Head(ops).op = "add_connection"
        THEN /\ Len(EventsLeft') = Len(EventsLeft) - 1
             /\ connections' = add_connection(connections, Head(EventsLeft))
             /\ \E fail \in DbFailPoints :
                  db' = insert_connection(db, Head(EventsLeft), fail)
        ELSE connections' = connections /\ db' = db

\* StatsUpdated always, ConnectionsUpdated exactly when the batch has events
StatsSignals ==
    InStatsUpdate /\ Completed =>
        /\ EventsDone = Len(Unwrap(cur).stats.events)
        /\ emitted = IF Len(Unwrap(cur).stats.events) > 0
                     THEN <<"StatsUpdated", "ConnectionsUpdated">>
                     ELSE <<"StatsUpdated">>

\* C20 as stated: processing StatsUpdate{P, stats} with n events appends all
\* n events to the connection ring in batch order (the last ends newest),
\* makes one persistence attempt per event, sets node P's statistics to
\* stats, and emits StatsUpdated always and ConnectionsUpdated exactly when
\* n > 0.
C20_StatsIngest ==
    /\ [](BatchOrder /\ StatsSignals)
    /\ [][OneAttemptPerEvent]_vars
    /\ [](InStatsUpdate /\ Completed =>
            /\ Unwrap(cur).node_addr \in DOMAIN nodes
            /\ nodes[Unwrap(cur).node_addr].statistics = Some(Unwrap(cur).stats))

\* C20 amended: as above, with node P's statistics set to stats when P is a
\* node of the node set; a StatsUpdate of a peer that is no node appends and
\* persists its events and emits its signals, and its statistics are dropped
\* (no node is made for P).
C20_StatsIngestOfKnownNode ==
    /\ [](BatchOrder /\ StatsSignals)
    /\ [][OneAttemptPerEvent]_vars
    /\ [](InStatsUpdate /\ Completed /\ Unwrap(cur).node_addr \in DOMAIN nodes =>
            nodes[Unwrap(cur).node_addr].statistics = Some(Unwrap(cur).stats))
    /\ [][InStatsUpdate /\ Unwrap(cur).node_addr \notin DOMAIN nodes
            => nodes' = nodes]_vars

\* a push with two events has been processed for a subscribed node: its
\* statistics are the push's, the second event is the ring's newest, both
\* signals were sent
C20_Witness ==
    /\ InStatsUpdate
    /\ Completed
    /\ Len(Unwrap(cur).stats.events) = 2
    /\ "a" \in DOMAIN nodes
    /\ nodes["a"].statistics = Some(Unwrap(cur).stats)
    /\ connections[1] = Unwrap(cur).stats.events[2]
    /\ emitted = <<"StatsUpdated", "ConnectionsUpdated">>


-----------------------------------------------------------------------------
(* Rule lifecycle                                                          *)

\* RuleAdded, RuleToggled and RuleDeleted have all been processed
ScriptDone == clock.commands = 4 /\ rx = <<>> /\ Completed

\* the row key of the script's rule
ScriptKey == <<"a", Rule1.name>>

\* the node is there and has no rule of that name
LifecycleMemory ==
    ScriptDone =>
        /\ "a" \in DOMAIN nodes
        /\ FirstNamed(nodes["a"].rules, Rule1.name) = 0

\* each of the three commands has sent one RulesUpdated by the end of its arm,
\* and the three are the last signals on the broadcast channel
LifecycleSignals ==
    /\ Completed /\ Unwrap(cur).type \in {"RuleAdded", "RuleToggled", "RuleDeleted"}
         => emitted = <<"RulesUpdated">>
    /\ ScriptDone =>
         LET buf == ui_update_rx.buf
         IN /\ Len(buf) >= 3
            /\ \A i \in (Len(buf) - 2)..Len(buf) : buf[i] = "RulesUpdated"
            /\ \A i \in 1..(Len(buf) - 3) : buf[i] # "RulesUpdated"

\* C21 as stated: for a connected node N the sequence RuleAdded(N, R),
\* RuleToggled(N, R.name, false), RuleDeleted(N, R.name) leaves N present
\* with no rule named R.name, leaves zero rows for (N, R.name) in the rules
\* table, and emits exactly three RulesUpdated, one after each command.
C21_RuleLifecycle ==
    /\ LifecycleMemory
    /\ LifecycleSignals
    /\ ScriptDone => RowsOf(db.rules, ScriptKey) = <<>>

\* C21 amended: N is left present with no rule named R.name and the three
\* RulesUpdated are sent, one after each command; the rules table has no row
\* for (N, R.name) when the delete_rule call of RuleDeleted succeeds: a call
\* that fails leaves the store as it was, and the row the sequence can leave
\* is the one RuleAdded wrote.
C21_RuleLifecycleWhenDeleted ==
    /\ [](LifecycleMemory /\ LifecycleSignals)
    /\ [][Running("db") /\ Head(ops).arg.type = "RuleDeleted" /\ ops' # ops
            => \/ RowsOf(db'.rules, ScriptKey) = <<>>
               \/ db' = db]_vars
    /\ [][cur # None /\ Unwrap(cur).type = "RuleDeleted" /\ ~Running("db")
            => db' = db]_vars
    /\ [](ScriptDone => RowsOf(db.rules, ScriptKey)
                         \in {<<>>, <<[key |-> ScriptKey, row |-> rule_row(Rule1)]>>})

\* the sequence has run to its end: the node keeps its other rule, the store
\* has no row,
\* and the channel's newest signal is RulesUpdated
C21_Witness ==
    /\ ScriptDone
    /\ nodes["a"].rules = <<Rule2>>
    /\ nodes["a"].status = "Connected"
    /\ RowsOf(db.rules, ScriptKey) = <<>>
    /\ Len(ui_update_rx.buf) >= 3
    /\ ui_update_rx.buf[Len(ui_update_rx.buf)] = "RulesUpdated"


\* C22: no node's rule list holds two rules with the same name; RuleAdded
\* with a name the node already has does not make a second entry.
C22_RuleNamesUnique ==
    \A a \in DOMAIN nodes :
        \A i, j \in 1..Len(nodes[a].rules) :
            i # j => nodes[a].rules[i].name # nodes[a].rules[j].name


-----------------------------------------------------------------------------
(* The connections table                                                   *)

\* the step is a call of insert_connection
InsertConnectionCall ==
    /\ replies' # None
    /\ Unwrap(replies').rpc = "insert_connection"
    /\ clock'.events = clock.events + 1

\* the event of the call
Inserted == Unwrap(replies').arg

\* the columns outside the UNIQUE constraint, as the event gives them
LatestOf(event) ==
    [time |-> event.seq, dst_host |-> event.connection.dst_host,
     process_cwd |-> event.connection.process_cwd,
     rule |-> IF IsSome(event.rule) THEN Unwrap(event.rule).name ELSE <<>>]

\* no two rows agree on (node, action, protocol, src_ip, src_port, dst_ip,
\* dst_port, uid, pid, process, process_args)
OneRowPerFlow ==
    \A i, j \in 1..Len(db.connections) :
        i # j => db.connections[i].key # db.connections[j].key

\* the INSERT statement of the call has run: the table has one row of the
\* event's tuple, with the event's time, dst_host, cwd and rule; a tuple that
\* was there adds no row; every other row is as before
ReplacedNotAdded ==
    LET key == FlowKey(Inserted)
    IN /\ RowsOf(db'.connections, key) = <<[key |-> key, row |-> LatestOf(Inserted)]>>
       /\ Delete(db'.connections, key) = Delete(db.connections, key)
       /\ Len(db'.connections) =
            IF RowsOf(db.connections, key) # <<>> THEN Len(db.connections)
            ELSE Len(db.connections) + 1

\* C23: after any sequence of insert_connection calls the connections table
\* holds at most one row per distinct (node, action, protocol, src_ip,
\* src_port, dst_ip, dst_port, uid, pid, process, process_args) tuple; an
\* insert whose tuple is present replaces that row (the table keeps the
\* latest time, dst_host, cwd and rule) instead of adding one.
C23_FlowsCollapse ==
    /\ []OneRowPerFlow
    /\ [][InsertConnectionCall =>
            \/ Unwrap(replies').reply = "Err" /\ db'.connections = db.connections
            \/ ReplacedNotAdded]_vars
    /\ [][InsertConnectionCall /\ Unwrap(replies').reply = "Ok" => ReplacedNotAdded]_vars

\* a flow was inserted twice with another host and directory: one row, which
\* carries the second insert's time, host and directory
C23_Witness ==
    /\ Len(db.connections) = 1
    /\ clock.events = 2
    /\ db.connections[1].row.time = 2
    /\ db.connections[1].row.dst_host = <<"other", ".", "org">>
    /\ db.hosts = (<<"example", ".", "org">> :> 1) @@ (<<"other", ".", "org">> :> 1)


\* the counter a table holds for what, 0 when it has none
Hits(table, what) == IF what \in DOMAIN table THEN table[what] ELSE 0

\* table changed from old by one more hit for what (made at 1 when absent)
\* and by nothing else
OneMoreHit(old, table, what) ==
    /\ DOMAIN table = DOMAIN old \cup {what}
    /\ table[what] = Hits(old, what) + 1
    /\ \A w \in DOMAIN old \ {what} : table[w] = old[w]

\* the five counter tables after a call that ran all its statements
CountersOfSuccess ==
    LET c == Inserted.connection
    IN /\ OneMoreHit(db.procs, db'.procs, c.process_path)
       /\ OneMoreHit(db.ports, db'.ports, c.dst_port)
       /\ OneMoreHit(db.users, db'.users, c.user_id)
       /\ IF c.dst_host # <<>> THEN OneMoreHit(db.hosts, db'.hosts, c.dst_host)
          ELSE db'.hosts = db.hosts
       /\ IF c.dst_ip # <<>> THEN OneMoreHit(db.addrs, db'.addrs, c.dst_ip)
          ELSE db'.addrs = db.addrs

\* C24: every successful insert_connection(event) increments by exactly 1
\* procs[process_path], ports[dst_port] and users[uid], hosts[dst_host] iff
\* dst_host is non-empty and addrs[dst_ip] iff dst_ip is non-empty, makes a
\* counter at 1 when it was absent and changes no other counter; a failed
\* insert_connection leaves all counters and the connections table unchanged.
C24_CountersExact ==
    [][InsertConnectionCall =>
         IF Unwrap(replies').reply = "Ok" THEN CountersOfSuccess ELSE db' = db]_vars


-----------------------------------------------------------------------------
(* The rules table                                                         *)

\* the step is a call of insert_rule
InsertRuleCall ==
    /\ replies' # None
    /\ Unwrap(replies').rpc = "insert_rule"
    /\ clock'.events = clock.events + 1

C26_InsertThenSelect ==
    [][/\ replies # None
       /\ Unwrap(replies).rpc = "insert_rule"
       /\ replies' # None
       /\ Unwrap(replies').rpc = "select_rules"
       /\ Unwrap(replies').arg[1] = Unwrap(replies).arg[1]
       => \E i \in 1..Len(Unwrap(replies').reply) :
             Unwrap(replies').reply[i] = Unwrap(replies).arg[2]]_vars


-----------------------------------------------------------------------------
(* Conversions to the daemon's schema and back                             *)

\* the last call made was fn
Called(fn) == replies # <<>> /\ replies[1].rpc = fn

\* the last call decoded, as kind fn, the message or string written for v
DecodedFrom(fn, written) == Called(fn) /\ replies[1].arg = written

\* every enum value is parsed back from the string written for it
EnumStringsRoundTrip ==
    /\ \A v \in RuleAction :
         DecodedFrom("RuleAction::from", RuleAction_to_string(v))
           => replies[1].reply = v
    /\ \A v \in RuleDuration :
         DecodedFrom("RuleDuration::from", RuleDuration_to_string(v))
           => replies[1].reply = v
    /\ \A v \in OperatorType :
         DecodedFrom("OperatorType::from", OperatorType_to_string(v))
           => replies[1].reply = v

\* an operator comes back from its message as it was, nested lists included
OperatorsRoundTrip ==
    \A o \in CodecOperators :
      DecodedFrom("models::Operator::from", Operator_into_proto(o))
        => replies[1].reply = o

\* the instant t cut to its whole second
WholeSecond(t) == DateTime(t.secs, 0)

\* C27 (as stated): a Rule or an Operator converted to its daemon-schema
\* message and back is the same value on every field of the data model; each
\* RuleAction, RuleDuration and OperatorType value is parsed back from the
\* string written for it; nested operator lists are kept at every depth.
C27_RoundTrip ==
    /\ \A r \in CodecRules :
         DecodedFrom("models::Rule::from", Rule_into_proto(r))
           => replies[1].reply = r
    /\ OperatorsRoundTrip
    /\ EnumStringsRoundTrip

\* C27 (amended): the same, but the created timestamp of a Rule comes back
\* cut to its whole second; every other field, the operator and its nested
\* lists at every depth, and the enum strings come back as they were.
C27_RoundTripToTheSecond ==
    /\ \A r \in CodecRules :
         DecodedFrom("models::Rule::from", Rule_into_proto(r))
           => replies[1].reply = [r EXCEPT !.created = WholeSecond(@)]
    /\ OperatorsRoundTrip
    /\ EnumStringsRoundTrip

\* a rule over a list nested in a list, created within a second, has come
\* back from its message
C27_Witness ==
    /\ DecodedFrom("models::Rule::from",
                   Rule_into_proto(Dated(Rule3, DateTime(1, 500))))
    /\ replies[1].reply.operator = Rule3.operator
    /\ replies[1].reply.operator.list[2].list # <<>>
    /\ replies[1].reply.created = DateTime(1, 0)


-----------------------------------------------------------------------------
(* Enum values no variant is written as                                    *)

\* the strings drawn that spell a variant in another letter case
OtherCases ==
    {<<<<"ALLOW">>, "allow">>, <<<<"Deny">>, "deny">>, <<<<"REJECT">>, "reject">>,
     <<<<"Always">>, "always">>, <<<<"Until Restart">>, "until restart">>,
     <<<<"1H">>, "1h">>, <<<<"Regexp">>, "regexp">>, <<<<"LISTS">>, "lists">>}

\* s is the string written for v
Written(s, v) == s = <<v>>

\* s is the string written for v, in some letter case
Spells(s, v) == Written(s, v) \/ <<s, v>> \in OtherCases

\* the last call of fn gave the variant its string is written for, and
\* default when it is the string of none
ParsedExactly(fn, variants, default) ==
    Called(fn) =>
      IF \E v \in variants : Written(replies[1].arg, v)
      THEN Written(replies[1].arg, replies[1].reply)
      ELSE replies[1].reply = default

\* the same, a string standing for a variant in any letter case
ParsedIgnoringCase(fn, variants, default) ==
    Called(fn) =>
      IF \E v \in variants : Spells(replies[1].arg, v)
      THEN Spells(replies[1].arg, replies[1].reply)
      ELSE replies[1].reply = default

\* the variants of the alert enums in the order of their ordinals
AlertTypeOrder == <<"error", "warning", "info">>
AlertPriorityOrder == <<"low", "medium", "high">>
AlertActionOrder == <<"none", "show_alert", "save_to_db">>
AlertWhatOrder == <<"generic", "proc_monitor", "firewall", "connection", "rule",
                    "netlink", "kernel_event">>

\* the variant of ordinal v, default when v is the ordinal of none
VariantOf(v, order, default) ==
    IF v \in 0..(Len(order) - 1) THEN order[v + 1] ELSE default

\* an alert decodes with each enum field at the variant of its integer, and
\* at info, low, generic and none when the integer is out of range
AlertIntsDecoded ==
    Called("models::Alert::from") =>
      LET a == replies[1].arg
          out == replies[1].reply
      IN /\ out.alert_type = VariantOf(a.type, AlertTypeOrder, "info")
         /\ out.priority = VariantOf(a.priority, AlertPriorityOrder, "low")
         /\ out.what = VariantOf(a.what, AlertWhatOrder, "generic")
         /\ out.action = VariantOf(a.action, AlertActionOrder, "none")

\* a rule or an operator decodes with its enum fields parsed from its strings
RuleStringsDecoded ==
    /\ Called("models::Rule::from") =>
         /\ replies[1].reply.action = RuleAction_from(replies[1].arg.action)
         /\ replies[1].reply.duration = RuleDuration_from(replies[1].arg.duration)
    /\ Called("models::Operator::from") =>
         replies[1].reply.op_type = OperatorType_from(replies[1].arg.type)

\* C28 (as stated): decoding rejects no enum value: a rule action string
\* outside {allow, deny, reject} decodes to allow, a duration string outside
\* the listed set to once, an operator type string outside the listed set to
\* simple, an out-of-range alert integer to info, low, generic and none; a
\* known value decodes to itself.
C28_DecodeDefaults ==
    /\ ParsedExactly("RuleAction::from", RuleAction, "allow")
    /\ ParsedExactly("RuleDuration::from", RuleDuration, "once")
    /\ ParsedExactly("OperatorType::from", OperatorType, "simple")
    /\ RuleStringsDecoded
    /\ AlertIntsDecoded

\* C28 (amended): the same, with the strings compared without regard to
\* letter case: a string that is a listed value in any letter case decodes to
\* that value, and only the strings that are none of them decode to the
\* default.
C28_DecodeDefaultsIgnoringCase ==
    /\ ParsedIgnoringCase("RuleAction::from", RuleAction, "allow")
    /\ ParsedIgnoringCase("RuleDuration::from", RuleDuration, "once")
    /\ ParsedIgnoringCase("OperatorType::from", OperatorType, "simple")
    /\ RuleStringsDecoded
    /\ AlertIntsDecoded

\* an alert with every enum integer out of range has been decoded to the
\* defaults
C28_Witness ==
    /\ Called("models::Alert::from")
    /\ replies[1].arg.type = 7
    /\ replies[1].arg.what = 7
    /\ replies[1].reply.alert_type = "info"
    /\ replies[1].reply.priority = "low"
    /\ replies[1].reply.what = "generic"
    /\ replies[1].reply.action = "none"


-----------------------------------------------------------------------------
(* Ping and PostAlert                                                      *)

\* this step is a call of rpc: it wrote its reply or drew a command
CallStep(rpc) ==
    /\ replies' # <<>>
    /\ replies'[1].rpc = rpc
    /\ replies' # replies \/ clock' # clock

\* this step put exactly msg on the command channel
Enqueued(msg) == rx' = Append(rx, msg)

\* C29: Ping(id = x, stats) replies {id = x}; it enqueues exactly one
\* StatsUpdate{peer, stats} when stats is present, and no command when stats
\* is absent.
C29_Ping ==
    [][CallStep("Ping") =>
         LET peer == replies'[1].arg[1]
             id == replies'[1].arg[2]
             stats == replies'[1].arg[3]
         IN /\ replies'[1].reply = [id |-> id]
            /\ IF IsSome(stats)
               THEN Enqueued(MsgStatsUpdate(peer, Unwrap(stats)))
               ELSE rx' = rx]_vars

\* a Ping without stats has been answered with its id and has left the
\* channel empty, after a Ping that carried stats was taken off it
C29_Witness ==
    /\ Called("Ping")
    /\ replies[1].arg[3] = None
    /\ replies[1].arg[2] = 7
    /\ replies[1].reply.id = 7
    /\ clock.stats > 0
    /\ rx = <<>>

\* every alert on its way to the ring, and in it, names a peer as its node
AlertsNamePeers ==
    /\ \A i \in 1..Len(rx) :
         rx[i].type = "AlertReceived" => rx[i].alert.node \in RpcPeers
    /\ cur # None /\ Unwrap(cur).type = "AlertReceived"
         => Unwrap(cur).alert.node \in RpcPeers
    /\ \A i \in 1..Len(alerts) : alerts[i].node \in RpcPeers

\* C30: PostAlert enqueues exactly one AlertReceived, whose alert has the
\* peer of the call as its node, and replies {id: 0}; the alert ring takes
\* the alert of the AlertReceived in hand as it is, so that every alert in
\* the ring has the peer of its call as its node.
C30_PostAlert ==
    [][/\ CallStep("PostAlert") =>
            LET peer == replies'[1].arg[1]
                alert == replies'[1].arg[2]
            IN /\ replies'[1].reply = [id |-> 0]
               /\ Len(rx') = Len(rx) + 1
               /\ Enqueued(rx'[Len(rx')])
               /\ rx'[Len(rx')].type = "AlertReceived"
               /\ rx'[Len(rx')].alert.id = alert.id
               /\ rx'[Len(rx')].alert.node = peer
       /\ alerts' # alerts =>
            /\ cur # None
            /\ Unwrap(cur).type = "AlertReceived"
            /\ alerts' # <<>>
            /\ alerts'[1] = Unwrap(cur).alert
       /\ AlertsNamePeers']_vars

\* an alert posted by peer b is in the ring with b as its node
C30_Witness ==
    /\ alerts # <<>>
    /\ alerts[1].node = "b"
    /\ alerts[1].alert_type = "info"
    /\ Called("PostAlert")
    /\ replies[1].reply = [id |-> 0]


-----------------------------------------------------------------------------
(* The command channel                                                     *)

\* a producer made a command in this step
CommandMade == clock'.commands > clock.commands

\* C31: the command channel never holds more than its capacity, and no
\* command is discarded because the channel is full: a command a producer
\* makes is put on the channel, the producer having waited for room.
C31_ChannelLossless ==
    [][/\ Len(rx') <= ChannelCapacity
       /\ CommandMade => Len(rx') = Len(rx) + 1 /\ SubSeq(rx', 1, Len(rx)) = rx]_vars


-----------------------------------------------------------------------------
(* Locks held by the state actor while it waits                            *)

\* the actor waits for the next command: rx.recv().await on an empty channel
WaitingForCommand == ops = <<>> /\ rx = <<>>

\* C32: the state actor holds no lock on a shared sub-map (nodes, the rings,
\* pending prompts, notification channels) while it is suspended on a
\* channel operation that waits for another task: the receive of the next
\* command, and the send into a peer's outbound queue that is full.
C32_NoLockWhileSuspended ==
    WaitingForCommand \/ BlockedOnSend => held = {}


-----------------------------------------------------------------------------
(* The order of prompts                                                    *)

\* the deque holds its prompts in the order their commands arrived (the
\* reply channels are numbered in the order the handlers sent the commands)
InArrivalOrder ==
    \A i, j \in 1..Len(pending_prompts) :
        i < j => pending_prompts[i].response_tx < pending_prompts[j].response_tx

\* this step appends the prompt of the ConnectionPrompt in the match
PromptAppended ==
    /\ Running("prompts")
    /\ pending_prompts' =
         Append(pending_prompts,
                [node_addr |-> Head(ops).arg.node_addr,
                 connection |-> Head(ops).arg.connection,
                 response_tx |-> Head(ops).arg.response_tx])

\* this step hands the oldest prompt of the deque to the UI's dialog
OldestTaken ==
    /\ pending_prompts # <<>>
    /\ pending_prompts' = Tail(pending_prompts)
    /\ prompt_dialog' # None
    /\ Unwrap(prompt_dialog').response_tx = Some(Head(pending_prompts).response_tx)
    /\ Unwrap(prompt_dialog').connection = Head(pending_prompts).connection
    /\ Unwrap(prompt_dialog').node_addr = Head(pending_prompts).node_addr

\* C33: prompts are appended to pending_prompts in arrival order and handed
\* to the UI oldest first: the deque changes only by an append at its back or
\* by the UI taking its front, never a prompt behind an older one; and each
\* ConnectionPrompt command sends exactly one PromptReceived signal.
C33_PromptsFifo ==
    /\ []InArrivalOrder
    /\ [](Completed /\ Unwrap(cur).type = "ConnectionPrompt"
            => emitted = <<"PromptReceived">>)
    /\ [][pending_prompts' # pending_prompts => PromptAppended \/ OldestTaken]_vars

\* the UI shows the first prompt while the second is still in the deque
C33_Witness ==
    /\ prompt_dialog # None
    /\ Unwrap(prompt_dialog).response_tx = Some(1)
    /\ Len(pending_prompts) = 1
    /\ pending_prompts[1].response_tx = 2


-----------------------------------------------------------------------------
(* The operator of a prompt's rule                                         *)

\* the matchers whose flag is set in dialog d
SelectedMatchers(d) ==
    {m \in {"dest.host", "dest.ip", "dest.port", "user.id", "process.hash.md5"} :
       CASE m = "dest.host" -> d.match_dest_host
         [] m = "dest.ip" -> d.match_dest_ip
         [] m = "dest.port" -> d.match_dest_port
         [] m = "user.id" -> d.match_user
         [] m = "process.hash.md5" -> d.match_checksum}

\* the selected matchers the connection of d has a value for
EffectiveMatchers(d) ==
    {m \in SelectedMatchers(d) :
       CASE m = "dest.host" -> d.connection.dst_host # <<>>
         [] m = "dest.ip" -> d.connection.dst_ip # <<>>
         [] m = "process.hash.md5" -> "md5" \in DOMAIN d.connection.process_checksums
         [] OTHER -> TRUE}

\* the value of the connection matcher m compares with
ValueOf(d, m) ==
    CASE m = "process.path" -> d.connection.process_path
      [] m = "dest.host" -> d.connection.dst_host
      [] m = "dest.ip" -> d.connection.dst_ip
      [] m = "dest.port" -> <<d.connection.dst_port>>
      [] m = "user.id" -> <<d.connection.user_id>>
      [] m = "process.hash.md5" -> d.connection.process_checksums["md5"]

\* op is the bare simple operator of one of the matchers ms
BareSimple(op, d, ms) ==
    /\ op.op_type = "simple"
    /\ op.operand \in ms
    /\ op.data = ValueOf(d, op.operand)
    /\ op.list = <<>>

\* op is a list operator whose nested list holds exactly the matchers ms,
\* each once and simple
ListOf(op, d, ms) ==
    /\ op.op_type = "list"
    /\ op.operand = "list"
    /\ op.data = <<>>
    /\ Len(op.list) = Cardinality(ms)
    /\ {op.list[i].operand : i \in 1..Len(op.list)} = ms
    /\ \A i \in 1..Len(op.list) : BareSimple(op.list[i], d, ms)

\* C34 (as stated): the rule of a resolved prompt has a bare simple operator
\* when exactly one of dest.host, dest.ip, dest.port, user.id and
\* process.hash.md5 is selected, and otherwise a list operator with operand
\* "list" whose nested list holds exactly the selected matchers, for every
\* combination of the five flags.
C34_OperatorOfSelection ==
    Called("PromptDialog::create_rule") =>
      LET d == replies[1].arg
          op == replies[1].reply.operator
      IN IF Cardinality(SelectedMatchers(d)) = 1
         THEN BareSimple(op, d, SelectedMatchers(d))
         ELSE ListOf(op, d, SelectedMatchers(d))

\* C34 (amended): process.path is always a matcher of the rule, and a
\* selected matcher takes part only when the connection has a value for it
\* (a host name, a destination address, an md5 checksum): the operator is
\* the bare simple process.path operator when no selected matcher takes
\* part, and otherwise a list operator with operand "list" whose nested list
\* holds exactly process.path and the selected matchers that take part, for
\* every combination of the five flags.
C34_OperatorOfSelectionAndPath ==
    Called("PromptDialog::create_rule") =>
      LET d == replies[1].arg
          op == replies[1].reply.operator
      IN IF EffectiveMatchers(d) = {}
         THEN BareSimple(op, d, {"process.path"})
         ELSE ListOf(op, d, {"process.path"} \cup EffectiveMatchers(d))

\* the rule of a dialog with every matcher selected, for a connection with a
\* host name and a checksum: a list of six
C34_Witness ==
    /\ Called("PromptDialog::create_rule")
    /\ Cardinality(SelectedMatchers(replies[1].arg)) = 5
    /\ replies[1].reply.operator.op_type = "list"
    /\ Len(replies[1].reply.operator.list) = 6


-----------------------------------------------------------------------------
(* The end of an older stream of a peer that has a newer one               *)

\* the statement in hand is the write of kind op of NodeDisconnected, and
\* this step runs it
DisconnectWrite(op) ==
    /\ Running(op)
    /\ Head(ops).arg.type = "NodeDisconnected"
    /\ ops' = Tail(ops)

\* the queue registered for the peer of the NodeDisconnected in hand is that
\* of a newer stream than the one that ended, still open
NewerStreamRegistered ==
    LET msg == Head(ops).arg
    IN /\ msg.addr \in DOMAIN notification_channels
       /\ notification_channels[msg.addr] > msg.stream
       /\ streams[notification_channels[msg.addr]].state = "open"

\* C35: NodeDisconnected{P} of a terminated stream removes only that
\* stream's queue and retires only that connection: when the queue of a
\* newer stream of P is registered, it stays registered, and node P, when
\* Connected, stays Connected.
C35_OnlyOwnStreamRetired ==
    [][/\ DisconnectWrite("channels") /\ NewerStreamRegistered
            => notification_channels' = notification_channels
       /\ (DisconnectWrite("nodes") /\ NewerStreamRegistered
           /\ Head(ops).arg.addr \in DOMAIN nodes
           /\ nodes[Head(ops).arg.addr].status = "Connected")
            => nodes'[Head(ops).arg.addr].status = "Connected"]_vars


-----------------------------------------------------------------------------
(* The cursor and the connected nodes                                      *)

\* C36: after any sequence of NodeConnected and NodeDisconnected commands,
\* active_node, when set, names a node whose status is Connected, and it is
\* set whenever some node has status Connected.
C36_ActiveIffConnected ==
    /\ active_node # None => Unwrap(active_node) \in ConnectedNodes
    /\ ConnectedNodes # {} => active_node # None

\* every node had disconnected and the cursor was unset; a node has
\* subscribed since and the cursor is on it
C36_Witness ==
    /\ NodesWritten("NodeConnected")
    /\ pre_active = None
    /\ \E a \in DOMAIN nodes : nodes[a].status = "Disconnected"
    /\ active_node = Some(Unwrap(cur).addr)
    /\ ConnectedNodes = {Unwrap(cur).addr}


-----------------------------------------------------------------------------
(* Prompts on their way through the UI                                     *)

RECURSIVE Count(_, _)
\* how many entries of sequence s are x
Count(s, x) ==
    IF s = <<>> THEN 0
    ELSE (IF Head(s) = x THEN 1 ELSE 0) + Count(Tail(s), x)

\* the PromptReceived signals the UI has yet to receive: those retained by
\* the signal channel and the one the ConnectionPrompt arm has yet to send
PromptSignalsDue ==
    Count(ui_update_rx.buf, "PromptReceived")
    + Count([i \in 1..Len(ops) |-> ops[i] = Notify("PromptReceived")], TRUE)

\* each prompt in the deque has a signal coming that takes it out
NoPromptStranded == Len(pending_prompts) <= PromptSignalsDue

\* the dialog shown changes hands only by the user's key or, when none is
\* shown, by the next prompt
ShownUntilResolved ==
    (prompt_dialog # None /\ ui_update_rx' # ui_update_rx)
        => prompt_dialog' = prompt_dialog

\* C37: no prompt is lost inside the UI: every prompt appended to
\* pending_prompts has a PromptReceived coming that makes the UI take and
\* show it, however many ConnectionPrompt commands arrive between two turns
\* of the UI loop and whatever the signal channel drops, and a prompt being
\* shown is not replaced by a newer one before the user has confirmed or
\* cancelled it.
C37_NoPromptLost ==
    /\ []NoPromptStranded
    /\ [][ShownUntilResolved]_vars


-----------------------------------------------------------------------------
(* The rules of a node in memory and in the store                          *)

\* the names of the rules table's rows of node N
RowNames(N) == {db.rules[i].key[2] : i \in {j \in 1..Len(db.rules) : db.rules[j].key[1] = N}}

\* the names of the rules node N has in memory
MemoryNames(N) == {nodes[N].rules[i].name : i \in 1..Len(nodes[N].rules)}

\* the columns the store and the memory are compared on
Compared(row) ==
    [enabled |-> row.enabled, action |-> row.action, duration |-> row.duration,
     operator_type |-> row.operator_type, operator_operand |-> row.operator_operand,
     operator_data |-> row.operator_data]

\* the rows of node N and its rule list hold the same names with the same
\* enabled flag, action, duration and operator
InSync(N) ==
    /\ RowNames(N) = MemoryNames(N)
    /\ \A i \in 1..Len(nodes[N].rules) :
         LET rule == nodes[N].rules[i]
         IN \A j \in 1..Len(db.rules) :
              db.rules[j].key = <<N, rule.name>>
                => Compared(db.rules[j].row) = Compared(rule_row(rule))

\* C38: after any sequence of RuleAdded, RuleModified, RuleToggled and
\* RuleDeleted commands to a connected node N, every store write succeeding,
\* the rules table's rows of N and N's rule list in memory agree.
C38_StoreAndMemoryAgree ==
    (Completed /\ "a" \in DOMAIN nodes /\ nodes["a"].status = "Connected")
        => InSync("a")


-----------------------------------------------------------------------------
(* Rule and firewall commands that find nothing to change                  *)

\* the rule a command of the rules tab names
NamedBy(msg) == IF msg.type = "RuleModified" THEN msg.rule.name ELSE msg.name

\* the arm in hand is that of a rule or firewall command whose node is not
\* in the mapping, or of a RuleModified, RuleToggled or RuleDeleted naming a
\* rule its node does not have (for RuleDeleted, judged before its write)
NothingToChange ==
    /\ cur # None
    /\ ops # <<>>
    /\ LET msg == Unwrap(cur)
       IN /\ msg.type \in {"RuleAdded", "RuleModified", "RuleToggled",
                           "RuleDeleted", "FirewallConfigUpdate"}
          /\ \/ msg.node_addr \notin DOMAIN nodes
             \/ /\ msg.type \in {"RuleModified", "RuleToggled"}
                /\ FirstNamed(nodes[msg.node_addr].rules, NamedBy(msg)) = 0
             \/ /\ msg.type = "RuleDeleted"
                /\ Running("nodes")
                /\ FirstNamed(nodes[msg.node_addr].rules, NamedBy(msg)) = 0

\* C39: a rule or firewall command to a node address absent from the node
\* mapping, and a RuleModified, RuleToggled or RuleDeleted naming a rule the
\* node does not have, changes nothing: no node is made, the nodes and the
\* rules table stay as they were; the command's change signal is still sent.
C39_NothingToChange ==
    /\ [][NothingToChange => UNCHANGED <<nodes, active_node>> /\ db'.rules = db.rules]_vars
    /\ [](Completed /\ Unwrap(cur).type \in {"RuleAdded", "RuleModified", "RuleToggled",
                                              "RuleDeleted", "FirewallConfigUpdate"}
            => emitted = Signals(Unwrap(cur)))


-----------------------------------------------------------------------------
(* NodeConnected of an address the mapping has                             *)

\* this step is the write of NodeConnected{A, config} with A in the mapping
Resubscribed ==
    /\ Running("nodes")
    /\ Head(ops).arg.type = "NodeConnected"
    /\ Head(ops).arg.addr \in DOMAIN nodes
    /\ ops' = Tail(ops)

\* C40: NodeConnected{A, config} for an address A already in the node mapping
\* makes no second entry: it sets A's status to Connected, replaces A's name,
\* version, rules and firewall snapshot by those of config, leaves every
\* other node as it was, and changes active_node only when it was unset,
\* setting it to A.
C40_Resubscribe ==
    [][Resubscribed =>
         LET A == Head(ops).arg.addr
             config == Head(ops).arg.config
         IN /\ DOMAIN nodes' = DOMAIN nodes
            /\ nodes'[A].addr = A
            /\ nodes'[A].status = "Connected"
            /\ nodes'[A].name = config.name
            /\ nodes'[A].version = config.version
            /\ nodes'[A].rules = config.rules
            /\ nodes'[A].firewall = config.system_firewall
            /\ \A other \in DOMAIN nodes \ {A} : nodes'[other] = nodes[other]
            /\ active_node' = IF active_node = None THEN Some(A) ELSE active_node]_vars

\* the active node, known under its first config, has subscribed again with
\* the other one while a second node is in the mapping
C40_Witness ==
    /\ NodesWritten("NodeConnected")
    /\ pre_active = Some(Unwrap(cur).addr)
    /\ Cardinality(DOMAIN nodes) = 2
    /\ Unwrap(cur).config.rules = <<Rule2>>
    /\ nodes[Unwrap(cur).addr].rules = <<Rule2>>
    /\ nodes[Unwrap(cur).addr].name = "host2"
    /\ Len(ui_update_rx.buf) >= 3

====
